---------------------------- MODULE Spec2Model ----------------------------
(***************************************************************************)
(* Model of the bank-statement extractor (saul-endless/proyecto_extractor).*)
(*                                                                         *)
(* Text is modelled at the character level: a string is a sequence of      *)
(* one-character strings, and every regular expression of the source is    *)
(* translated into an operator over such sequences.  Money is exact:       *)
(* a Decimal is a pair (m, e) standing for m * 10^(-e); a float parsed     *)
(* from a two-decimal text is an integer number of cents.                  *)
(*                                                                         *)
(* Several state machines share the module, one per part of the program:   *)
(*   SpecBalance      utils/validators.py   validar_balance                *)
(*   SpecParser       parsers/*.py          one run of a bank's            *)
(*                                          transaction extraction         *)
(*   SpecInbursaOCR   parsers/inbursa_parser.py   the same run of the      *)
(*                                          Inbursa parser on a text whose *)
(*                                          dates the OCR split in two     *)
(*   SpecPipeline     main_extractor.py     main and procesar_pdf          *)
(*   SpecDosCorridas  parsers/*.py          two processes that extract the *)
(*                                          transactions of the same text  *)
(***************************************************************************)
EXTENDS Integers, Sequences, FiniteSets, TLC

VARIABLES
    vb_pc,              \* validar_balance: "entrada" | "retornado"
    vb_datos,           \* its argument datos_generales (a dict: key -> text)
    vb_txs,             \* its argument transacciones (a list of dicts)
    vb_reporte,         \* the report it returns
    pp_pc,              \* a parser run: "entrada" | "bucle" | "retornado"
    pp_banco,           \* "bbva" | "banamex" | "inbursa"
    pp_layout,          \* BBVA: the layout found in the heading
    pp_argv,            \* sys.argv of the process
    pp_metadatos,       \* the dict of funcion_extraer_metadatos_completos
    pp_saldo_inicial,   \* Inbursa: the argument saldo_inicial (a sequence
                        \* of at most one amount: None is <<>>)
    pp_lineas,          \* the lines of the text handed to the parser
    pp_grupos,          \* the groups (Inbursa: the lines) the loop runs over
    pp_idx,             \* the loop's position in pp_grupos
    pp_bloque_actual,   \* Inbursa: bloque_actual
    pp_transacciones,   \* transacciones, the list being built
    pp_bloques,         \* history: the block each transaction came from
    pl_pc,              \* main: "inicio" | "procesando" | "retornado"
    pl_restantes,       \* the files of pdf_files the loop has not reached
    pl_ultimo,          \* history: what procesar_pdf did with the last file
                        \* (a sequence of at most one record)
    dc_banco,           \* two runs: the bank whose parser both processes run
    dc_layout,          \* the layout found in the heading (BBVA)
    dc_metadatos,       \* the metadata read from the heading
    dc_lineas,          \* the lines of the text both processes are given
    dc_argv,            \* sys.argv of each process that has run
    dc_salidas          \* the list of transactions each of them returned

VARIABLES
    pe_fuente,          \* the dates the statement's period line is printed from
    pe_texto,           \* the period line as the statement carries it
    pe_archivo,         \* "Periodo del estado de cuenta" of the parser's dict
    pe_fechas           \* the pair _formatear_periodo returns for the line

VARIABLES
    vc_pc,              \* validar_cruzada: "entrada" | "retornado"
    vc_a,               \* its argument resultado_a (native extraction)
    vc_b,               \* its argument resultado_b (OCR extraction)
    vc_reporte          \* the report it returns

VARIABLES
    pr_pc,              \* procesar_pdf after detection: "paso4" | "reintento" |
                        \* "paso5" | "paso6" | "paso7" | "guardado" | "abandonado"
    pr_parser_key,      \* the parser key detected for the file
    pr_datos,           \* what the metadata searches find in the file's heading
    pr_paginas_nativas, \* the lines of the native text extraction
    pr_paginas_ocr,     \* the lines of the OCR text extraction
    pr_resultado_final, \* resultado_final (None is <<>>)
    pr_archivos,        \* the files guardar_resultados has written (none: <<>>)
    pr_parseos          \* text of the file |-> what _parsear_texto returns for it

VARIABLES
    nz_texto,           \* the string given to the normalizer functions
    nz_argv,            \* sys.argv of the process
    nz_resultado        \* function's name |-> what its call returned

VARIABLES
    sp_banco,           \* the bank whose metadata extraction runs
    sp_texto,           \* the words of the statement the average's searches read
    sp_datos,           \* datos: saldo_inicial, saldo_final, saldo_promedio (cents)
    sp_pc               \* "buscar" before the extraction, "hecho" after it

VARIABLES
    md_pc,
    md_banco,
    md_hallado,
    md_metadatos

VARIABLES
    csv_pc,
    csv_datos,
    csv_i,
    csv_filas

VARIABLES
    ag_pc,
    ag_banco,
    ag_lineas,
    ag_grupos

VARIABLES
    nr_banco,
    nr_contador,
    nr_entradas,
    nr_nombres

VARIABLES
    mp_pc,
    mp_banco,
    mp_codigo,
    mp_descripcion,
    mp_metodo

varsBalance == <<vb_pc, vb_datos, vb_txs, vb_reporte>>
varsParser == <<pp_pc, pp_banco, pp_layout, pp_argv, pp_metadatos, pp_saldo_inicial,
                pp_lineas, pp_grupos, pp_idx, pp_bloque_actual, pp_transacciones,
                pp_bloques>>

varsPipeline == <<pl_pc, pl_restantes, pl_ultimo>>
varsCorridas == <<dc_banco, dc_layout, dc_metadatos, dc_lineas, dc_argv, dc_salidas>>

varsPeriodo == <<pe_fuente, pe_texto, pe_archivo, pe_fechas>>

varsCruzada == <<vc_pc, vc_a, vc_b, vc_reporte>>

varsProcesar == <<pr_pc, pr_parser_key, pr_datos, pr_paginas_nativas, pr_paginas_ocr, pr_resultado_final, pr_archivos, pr_parseos>>

varsNormalizar == <<nz_texto, nz_argv, nz_resultado>>

varsSaldoPromedio == <<sp_banco, sp_texto, sp_datos, sp_pc>>

varsMetadatos == <<md_pc, md_banco, md_hallado, md_metadatos>>

varsCSV == <<csv_pc, csv_datos, csv_i, csv_filas>>

varsAgrupar == <<ag_pc, ag_banco, ag_lineas, ag_grupos>>

varsResumen == <<nr_banco, nr_contador, nr_entradas, nr_nombres>>

varsMetodoPago == <<mp_pc, mp_banco, mp_codigo, mp_descripcion, mp_metodo>>

vars == <<varsBalance, varsParser, varsPipeline, varsCorridas, varsPeriodo, varsCruzada, varsProcesar, varsNormalizar, varsSaldoPromedio, varsMetadatos, varsCSV, varsAgrupar, varsResumen, varsMetodoPago>>

\* the parts of the program that a state machine does not run stay idle
BalanceEnReposo ==
    /\ vb_pc = "reposo" /\ vb_datos = <<>> /\ vb_txs = <<>> /\ vb_reporte = <<>>
ParserEnReposo ==
    /\ pp_pc = "reposo" /\ pp_banco = "" /\ pp_layout = "" /\ pp_argv = <<>>
    /\ pp_metadatos = <<>> /\ pp_saldo_inicial = <<>> /\ pp_lineas = <<>>
    /\ pp_grupos = <<>> /\ pp_idx = 0 /\ pp_bloque_actual = <<>>
    /\ pp_transacciones = <<>> /\ pp_bloques = <<>>
PipelineEnReposo ==
    /\ pl_pc = "reposo" /\ pl_restantes = 0 /\ pl_ultimo = <<>>
CorridasEnReposo ==
    /\ dc_banco = "" /\ dc_layout = "" /\ dc_metadatos = <<>> /\ dc_lineas = <<>>
    /\ dc_argv = <<>> /\ dc_salidas = <<>>
PeriodoEnReposo ==
    pe_fuente = <<>> /\ pe_texto = <<>> /\ pe_archivo = <<>> /\ pe_fechas = <<>>
CruzadaEnReposo ==
    vc_pc = "reposo" /\ vc_a = <<>> /\ vc_b = <<>> /\ vc_reporte = <<>>
ProcesarEnReposo ==
    pr_pc = "reposo" /\ pr_parser_key = "" /\ pr_datos = <<>> /\ pr_paginas_nativas = <<>> /\ pr_paginas_ocr = <<>> /\ pr_resultado_final = <<>> /\ pr_archivos = <<>> /\ pr_parseos = <<>>
NormalizarEnReposo ==
    nz_texto = <<>> /\ nz_argv = <<>> /\ nz_resultado = <<>>
SaldoPromedioEnReposo ==
    sp_banco = "" /\ sp_texto = <<>> /\ sp_datos = <<>> /\ sp_pc = "reposo"
MetadatosEnReposo ==
    md_pc = "reposo" /\ md_banco = "" /\ md_hallado = <<>> /\ md_metadatos = <<>>
CSVEnReposo ==
    csv_pc = "reposo" /\ csv_datos = <<>> /\ csv_i = 0 /\ csv_filas = <<>>
AgruparEnReposo ==
    ag_pc = "reposo" /\ ag_banco = "" /\ ag_lineas = <<>> /\ ag_grupos = <<>>
ResumenEnReposo ==
    nr_banco = "" /\ nr_contador = <<>> /\ nr_entradas = <<>> /\ nr_nombres = <<>>
MetodoPagoEnReposo ==
    mp_pc = "reposo" /\ mp_banco = "" /\ mp_codigo = <<>> /\ mp_descripcion = <<>> /\ mp_metodo = <<>>

-----------------------------------------------------------------------------
(* Characters and elementary string operations                              *)

Digitos == {"0", "1", "2", "3", "4", "5", "6", "7", "8", "9"}

DigitVal(c) ==
    CASE c = "0" -> 0 [] c = "1" -> 1 [] c = "2" -> 2 [] c = "3" -> 3
      [] c = "4" -> 4 [] c = "5" -> 5 [] c = "6" -> 6 [] c = "7" -> 7
      [] c = "8" -> 8 [] c = "9" -> 9

Max(a, b) == IF a >= b THEN a ELSE b
Min(a, b) == IF a <= b THEN a ELSE b
Abs(x) == IF x < 0 THEN -x ELSE x

RECURSIVE Pow10(_)
Pow10(n) == IF n = 0 THEN 1 ELSE 10 * Pow10(n - 1)

\* int(s) for a sequence of digit characters (0 for the empty sequence)
RECURSIVE DigitsToInt(_)
DigitsToInt(s) ==
    IF s = <<>> THEN 0
    ELSE 10 * DigitsToInt(SubSeq(s, 1, Len(s) - 1)) + DigitVal(s[Len(s)])

Count(s, c) == Cardinality({i \in 1..Len(s) : s[i] = c})

\* position of the first c in s, or 0
FirstIndex(s, c) ==
    IF \E i \in 1..Len(s) : s[i] = c
    THEN CHOOSE i \in 1..Len(s) : s[i] = c /\ \A j \in 1..(i - 1) : s[j] # c
    ELSE 0

\* dict.get(k, default)
Get(d, k, def) == IF k \in DOMAIN d THEN d[k] ELSE def

-----------------------------------------------------------------------------
(* Text.  A lexeme (token) is a sequence of characters, a line is the       *)
(* sequence of its whitespace-separated lexemes, a text is a sequence of    *)
(* lines.  The lines of the model separate lexemes by single spaces and     *)
(* carry no leading or trailing blanks, so that "\s+" between two parts of  *)
(* a pattern is the gap between two lexemes.                                *)

Mayusculas == {"A", "B", "C", "D", "E", "F", "G", "H", "I", "J", "K", "L", "M",
               "N", "O", "P", "Q", "R", "S", "T", "U", "V", "W", "X", "Y", "Z"}
Minusculas == {"a", "b", "c", "d", "e", "f", "g", "h", "i", "j", "k", "l", "m",
               "n", "o", "p", "q", "r", "s", "t", "u", "v", "w", "x", "y", "z"}
Letras == Mayusculas \cup Minusculas
CharsPalabra == Letras \cup Digitos \cup {"_"}          \* \w

AlfabetoMay == <<"A", "B", "C", "D", "E", "F", "G", "H", "I", "J", "K", "L", "M",
                 "N", "O", "P", "Q", "R", "S", "T", "U", "V", "W", "X", "Y", "Z">>
AlfabetoMin == <<"a", "b", "c", "d", "e", "f", "g", "h", "i", "j", "k", "l", "m",
                 "n", "o", "p", "q", "r", "s", "t", "u", "v", "w", "x", "y", "z">>

UpperChar(c) ==
    IF c \in Minusculas
    THEN AlfabetoMay[CHOOSE i \in 1..26 : AlfabetoMin[i] = c]
    ELSE c
LowerChar(c) ==
    IF c \in Mayusculas
    THEN AlfabetoMin[CHOOSE i \in 1..26 : AlfabetoMay[i] = c]
    ELSE c
Upper(s) == [i \in 1..Len(s) |-> UpperChar(s[i])]       \* str.upper()
Lower(s) == [i \in 1..Len(s) |-> LowerChar(s[i])]       \* str.lower()

\* w occurs in s at position i
EnPos(s, i, w) ==
    /\ i >= 1
    /\ i + Len(w) - 1 <= Len(s)
    /\ \A k \in 1..Len(w) : s[i + k - 1] = w[k]

\* "w in s"
Contiene(s, w) == \E i \in 1..(Len(s) - Len(w) + 1) : EnPos(s, i, w)

\* every character of s[i..j] is in the class
TodosEn(s, i, j, clase) == \A k \in i..j : s[k] \in clase

\* the end of the maximal run of class characters that starts at i (i-1: none)
RECURSIVE FinCorrida(_, _, _)
FinCorrida(s, i, clase) ==
    IF i <= Len(s) /\ s[i] \in clase THEN FinCorrida(s, i + 1, clase) ELSE i - 1

\* sep.join(partes)
RECURSIVE Unir(_, _)
Unir(partes, sep) ==
    IF partes = <<>> THEN <<>>
    ELSE IF Len(partes) = 1 THEN partes[1]
    ELSE partes[1] \o sep \o Unir(Tail(partes), sep)

\* the characters of a line, and of a block of lines joined by " "
TextoLinea(linea) == Unir(linea, <<" ">>)
RECURSIVE Aplanar(_)
Aplanar(lineas) ==
    IF lineas = <<>> THEN <<>> ELSE lineas[1] \o Aplanar(Tail(lineas))
TextoBloque(lineas) == TextoLinea(Aplanar(lineas))       \* " ".join(lineas)

\* re.findall over the lexemes: the matches of a pattern that cannot match
\* a blank are the matches inside each lexeme, in order
FindAllLexemas(lexemas, EnLexema(_)) ==
    Aplanar([i \in 1..Len(lexemas) |-> EnLexema(lexemas[i])])

\* the least element of a non-empty set of integers
MinDe(S) == CHOOSE x \in S : \A y \in S : x <= y

\* the position of the first occurrence of w in s, or 0       (s.find(w) + 1)
PosicionDe(s, w) ==
    LET ps == {i \in 1..(Len(s) - Len(w) + 1) : EnPos(s, i, w)}
    IN  IF ps = {} THEN 0 ELSE MinDe(ps)

\* w (given in upper case) occurs in s at position i, letter case ignored
EnPosSinCaso(s, i, w) ==
    /\ i >= 1
    /\ i + Len(w) - 1 <= Len(s)
    /\ \A k \in 1..Len(w) : UpperChar(s[i + k - 1]) = w[k]
PosicionSinCaso(s, w) ==
    LET ps == {i \in 1..(Len(s) - Len(w) + 1) : EnPosSinCaso(s, i, w)}
    IN  IF ps = {} THEN 0 ELSE MinDe(ps)

\* s.replace(w, "")
RECURSIVE Quitar(_, _)
Quitar(s, w) ==
    LET p == PosicionDe(s, w)
    IN  IF w = <<>> \/ p = 0 THEN s
        ELSE SubSeq(s, 1, p - 1) \o Quitar(SubSeq(s, p + Len(w), Len(s)), w)

\* re.sub(w, '', s, flags=re.IGNORECASE) for a literal w given in upper case
RECURSIVE QuitarSinCaso(_, _)
QuitarSinCaso(s, w) ==
    LET p == PosicionSinCaso(s, w)
    IN  IF w = <<>> \/ p = 0 THEN s
        ELSE SubSeq(s, 1, p - 1) \o QuitarSinCaso(SubSeq(s, p + Len(w), Len(s)), w)

\* s.replace(a, b) for characters a and b
ReemplazarChar(s, a, b) == [i \in 1..Len(s) |-> IF s[i] = a THEN b ELSE s[i]]

\* s.split(sep) for a one-character separator
RECURSIVE SplitPor(_, _)
SplitPor(s, sep) ==
    LET p == FirstIndex(s, sep)
    IN  IF p = 0 THEN <<s>>
        ELSE <<SubSeq(s, 1, p - 1)>> \o SplitPor(SubSeq(s, p + 1, Len(s)), sep)

\* s.split(): the lexemes of a text
Lexemas(s) == SelectSeq(SplitPor(s, " "), LAMBDA t : t # <<>>)

\* s.strip() for a text whose only blanks are spaces
RECURSIVE Strip(_)
Strip(s) ==
    IF s = <<>> THEN s
    ELSE IF s[1] = " " THEN Strip(Tail(s))
    ELSE IF s[Len(s)] = " " THEN Strip(SubSeq(s, 1, Len(s) - 1))
    ELSE s

-----------------------------------------------------------------------------
(* decimal.Decimal: exact values m * 10^(-e)                                *)

Dec(m, e) == [m |-> m, e |-> e]
DecCero == Dec(0, 2)                       \* Decimal('0.00')
DecScale(a, e) == a.m * Pow10(e - a.e)     \* a's mantissa at exponent e >= a.e
DecAdd(a, b) ==
    LET e == Max(a.e, b.e) IN Dec(DecScale(a, e) + DecScale(b, e), e)
DecSub(a, b) ==
    LET e == Max(a.e, b.e) IN Dec(DecScale(a, e) - DecScale(b, e), e)
DecAbs(a) == Dec(Abs(a.m), a.e)
DecLeq(a, b) ==
    LET e == Max(a.e, b.e) IN DecScale(a, e) <= DecScale(b, e)
DecEq(a, b) == DecLeq(a, b) /\ DecLeq(b, a)

-----------------------------------------------------------------------------
(* utils/validators.py                                                      *)

\* re.sub(r"[^\d.-]", "", texto_str)
limpiar_monto_filtrar(s) ==
    SelectSeq(s, LAMBDA c : c \in Digitos \cup {".", "-"})

\* Does Decimal(t) accept t, a text of digits, '.' and '-'?  The grammar is
\* [sign] digits ['.' [digits]] | [sign] '.' digits .
DecimalAcepta(t) ==
    LET cuerpo == IF t # <<>> /\ t[1] = "-" THEN Tail(t) ELSE t
    IN  /\ Count(cuerpo, "-") = 0
        /\ Count(cuerpo, ".") <= 1
        /\ \E i \in 1..Len(cuerpo) : cuerpo[i] \in Digitos

DecimalDe(t) ==
    LET neg    == t[1] = "-"
        cuerpo == IF neg THEN Tail(t) ELSE t
        p      == FirstIndex(cuerpo, ".")
        e      == IF p = 0 THEN 0 ELSE Len(cuerpo) - p
        m      == DigitsToInt(SelectSeq(cuerpo, LAMBDA c : c \in Digitos))
    IN  Dec(IF neg THEN -m ELSE m, e)

\* an exception that leaves the function
Excepcion(tipo) == [excepcion |-> tipo]

\* limpiar_monto without the handler of lines 28-30
limpiar_monto_sin_except(v) ==
    IF v.nulo THEN DecCero
    ELSE LET texto_limpio == limpiar_monto_filtrar(v.txt)
         IN  IF texto_limpio = <<>> THEN DecCero
             ELSE IF DecimalAcepta(texto_limpio) THEN DecimalDe(texto_limpio)
             ELSE Excepcion("InvalidOperation")

\* limpiar_monto(texto_monto); a missing value (None) is the record field nulo
limpiar_monto(v) ==
    IF v.nulo THEN DecCero
    ELSE LET texto_limpio == limpiar_monto_filtrar(v.txt)
         IN  IF texto_limpio = <<>> THEN DecCero
             ELSE IF DecimalAcepta(texto_limpio) THEN DecimalDe(texto_limpio)
             ELSE DecCero                  \* except InvalidOperation

Txt(s) == [nulo |-> FALSE, txt |-> s]
Nulo == [nulo |-> TRUE, txt |-> <<>>]
TxtCero == Txt(<<"0">>)                    \* the default '0' of the .get calls

tolerancia == Dec(1, 2)                    \* Decimal('0.01')

\* the two sums of the loop over transacciones
RECURSIVE total_calculado(_, _)
total_calculado(txs, clasificacion) ==
    IF txs = <<>> THEN DecCero
    ELSE LET tx    == txs[Len(txs)]
             resto == total_calculado(SubSeq(txs, 1, Len(txs) - 1), clasificacion)
             monto == limpiar_monto(Get(tx, "monto", TxtCero))
         IN  IF Get(tx, "clasificacion", "") = clasificacion
             THEN DecAdd(resto, monto)
             ELSE resto

\* abs(declarado - calculado), lines 68-69 and 94
diferencia(a, b) == DecAbs(DecSub(a, b))

\* line 39: the report before the try block
reporte_inicial ==
    [balance_coherente |-> FALSE, totales_coherentes |-> FALSE, mensajes |-> <<>>]

\* a value that has no .get (None, a number, a text) where a dict is expected
NoDict == [no_es_dict |-> TRUE]
es_dict(x) == "no_es_dict" \notin DOMAIN x

\* does the try block of validar_balance raise?  For a list transacciones
\* only a .get on something that is not a dict can: limpiar_monto accepts
\* every value
lanza_excepcion(datos_generales, transacciones) ==
    \/ ~es_dict(datos_generales)
    \/ \E i \in 1..Len(transacciones) : ~es_dict(transacciones[i])

\* lines 115-117: the handler adds its message to the report as it stands
\* (every .get precedes the first assignment of a flag)
reporte_de_excepcion ==
    [reporte_inicial EXCEPT !.mensajes = <<"EXCEPCION">>]

\* a comparison with a tolerance of 0.10
dentro_tolerancia_amplia(d) == DecLeq(d, Dec(1, 1))

\* a comparison that excludes the tolerance itself
dentro_tolerancia_estricta(d) == ~DecLeq(tolerancia, d)

\* the comparisons "<= tolerancia" of lines 71 and 96
dentro_tolerancia(d) == DecLeq(d, tolerancia)

\* the closing balance rebuilt from the sums over the transaction list
saldo_final_por_transacciones(saldo_inicial, dep_decl, ret_decl, dep_calc, ret_calc) ==
    DecSub(DecAdd(saldo_inicial, dep_calc), ret_calc)

\* line 93: the closing balance is rebuilt from the DECLARED totals
saldo_final_calculado(saldo_inicial, dep_decl, ret_decl, dep_calc, ret_calc) ==
    DecSub(DecAdd(saldo_inicial, dep_decl), ret_decl)

validar_balance(datos_generales, transacciones) ==
    IF lanza_excepcion(datos_generales, transacciones)
    THEN reporte_de_excepcion
    ELSE CHOOSE reporte \in
      { LET diferencia_depositos ==
                diferencia(total_depositos_declarado, total_depositos_calculado)
            diferencia_retiros ==
                diferencia(total_retiros_declarado, total_retiros_calculado)
            totales_ok == /\ dentro_tolerancia(diferencia_depositos)
                          /\ dentro_tolerancia(diferencia_retiros)
            mensajes_totales ==
                IF totales_ok THEN <<"OK_TOTALES">>
                ELSE (IF ~dentro_tolerancia(diferencia_depositos)
                      THEN <<"ERROR_TOTALES_DEPOSITOS">> ELSE <<>>)
                     \o (IF ~dentro_tolerancia(diferencia_retiros)
                         THEN <<"ERROR_TOTALES_RETIROS">> ELSE <<>>)
            diferencia_balance ==
                diferencia(saldo_final,
                           saldo_final_calculado(saldo_inicial,
                                                 total_depositos_declarado,
                                                 total_retiros_declarado,
                                                 total_depositos_calculado,
                                                 total_retiros_calculado))
            balance_ok == dentro_tolerancia(diferencia_balance)
            mensajes_balance ==
                IF balance_ok
                THEN (IF totales_ok THEN <<"OK_BALANCE">> ELSE <<"AVISO_BALANCE">>)
                ELSE <<"ERROR_BALANCE">>
        IN  [balance_coherente  |-> balance_ok,
             totales_coherentes |-> totales_ok,
             mensajes           |-> mensajes_totales \o mensajes_balance] :
        \* lines 43-46 and the loop of lines 55-63: each value is computed once
        saldo_inicial \in {limpiar_monto(Get(datos_generales, "saldo_inicial", TxtCero))},
        saldo_final \in {limpiar_monto(Get(datos_generales, "saldo_final", TxtCero))},
        total_depositos_declarado \in
            {limpiar_monto(Get(datos_generales, "total_depositos", TxtCero))},
        total_retiros_declarado \in
            {limpiar_monto(Get(datos_generales, "total_retiros", TxtCero))},
        total_depositos_calculado \in {total_calculado(transacciones, "Ingreso")},
        total_retiros_calculado \in {total_calculado(transacciones, "Egreso")} } : TRUE

-----------------------------------------------------------------------------
(* utils/field_extractors.py.  A float holding money is an integer number   *)
(* of cents.                                                                *)

\* funcion_extraer_monto(texto_monto): drop ',', '$' and '-', then take the
\* first match of \d+(?:\.\d{2})? anywhere in what is left
funcion_extraer_monto(texto) ==
    LET limpio == SelectSeq(texto, LAMBDA c : c \notin {",", "$", "-"})
        hay    == \E i \in 1..Len(limpio) : limpio[i] \in Digitos
        p      == CHOOSE i \in 1..Len(limpio) :
                      /\ limpio[i] \in Digitos
                      /\ \A j \in 1..(i - 1) : limpio[j] \notin Digitos
        q      == FinCorrida(limpio, p, Digitos)
        dec    == /\ q + 3 <= Len(limpio)
                  /\ limpio[q + 1] = "."
                  /\ limpio[q + 2] \in Digitos
                  /\ limpio[q + 3] \in Digitos
    IN  IF ~hay THEN 0
        ELSE IF dec
             THEN 100 * DigitsToInt(SubSeq(limpio, p, q))
                  + DigitsToInt(SubSeq(limpio, q + 2, q + 3))
             ELSE 100 * DigitsToInt(SubSeq(limpio, p, q))

\* sys.argv as funcion_extraer_fecha_normalizada reads it: the year named by
\* the first argument that contains '.pdf', '2025' when there is none
RECURSIVE UltimaBarra(_)
UltimaBarra(s) ==
    IF s = <<>> THEN 0
    ELSE IF s[Len(s)] = "/" THEN Len(s)
    ELSE UltimaBarra(SubSeq(s, 1, Len(s) - 1))
Basename(s) == SubSeq(s, UltimaBarra(s) + 1, Len(s))     \* os.path.basename
anio_detectado(argv) ==
    LET pdfs == SelectSeq(argv, LAMBDA a : Contiene(Lower(a), <<".", "p", "d", "f">>))
        nombre_archivo_procesado ==
            IF pdfs = <<>> THEN <<>> ELSE Lower(Basename(pdfs[1]))
    IN  IF Contiene(nombre_archivo_procesado, <<"2", "0", "2", "4">>) THEN <<"2", "0", "2", "4">>
        ELSE IF Contiene(nombre_archivo_procesado, <<"2", "0", "2", "5">>) THEN <<"2", "0", "2", "5">>
        ELSE <<"2", "0", "2", "5">>

\* the table meses of funcion_extraer_fecha_normalizada, and its lookup with
\* a default
MesesTexto == <<<<"E", "N", "E">>, <<"F", "E", "B">>, <<"M", "A", "R">>, <<"A", "B", "R">>, <<"M", "A", "Y">>, <<"J", "U", "N">>,
               <<"J", "U", "L">>, <<"A", "G", "O">>, <<"S", "E", "P">>, <<"O", "C", "T">>, <<"N", "O", "V">>, <<"D", "I", "C">>>>
MesesNumero == <<<<"0", "1">>, <<"0", "2">>, <<"0", "3">>, <<"0", "4">>, <<"0", "5">>, <<"0", "6">>,
                <<"0", "7">>, <<"0", "8">>, <<"0", "9">>, <<"1", "0">>, <<"1", "1">>, <<"1", "2">>>>
meses_get(mes_texto, defecto) ==
    IF \E i \in 1..12 : MesesTexto[i] = mes_texto
    THEN MesesNumero[CHOOSE i \in 1..12 : MesesTexto[i] = mes_texto]
    ELSE defecto

\* funcion_extraer_fecha_normalizada(fecha_texto), under the process
\* arguments argv
funcion_extraer_fecha_normalizada(fecha_texto, argv) ==
    LET es_dd_mmm ==                       \* re.match(r'(\d{2})/([A-Z]{3})')
            /\ Len(fecha_texto) >= 6
            /\ TodosEn(fecha_texto, 1, 2, Digitos)
            /\ fecha_texto[3] = "/"
            /\ TodosEn(fecha_texto, 4, 6, Mayusculas)
        es_dd_mm_aaaa ==                   \* re.match(r'\d{2}/\d{2}/\d{4}')
            /\ Len(fecha_texto) >= 10
            /\ TodosEn(fecha_texto, 1, 2, Digitos)
            /\ fecha_texto[3] = "/"
            /\ TodosEn(fecha_texto, 4, 5, Digitos)
            /\ fecha_texto[6] = "/"
            /\ TodosEn(fecha_texto, 7, 10, Digitos)
    IN  IF es_dd_mmm
        THEN SubSeq(fecha_texto, 1, 2) \o <<"/">>
             \o meses_get(SubSeq(fecha_texto, 4, 6), <<"0", "1">>) \o <<"/">>
             \o anio_detectado(argv)
        ELSE IF es_dd_mm_aaaa THEN fecha_texto
        ELSE <<"0", "1", "/", "0", "1", "/">> \o anio_detectado(argv)

\* re.findall(r'\b(\d{10,18})\b') inside one lexeme: the maximal digit runs
\* of 10 to 18 digits with no word character on either side
RECURSIVE CuentasDesde(_, _)
CuentasDesde(t, i) ==
    IF i > Len(t) THEN <<>>
    ELSE IF t[i] \notin Digitos THEN CuentasDesde(t, i + 1)
    ELSE LET f == FinCorrida(t, i, Digitos)
             borde_izq == i = 1 \/ t[i - 1] \notin CharsPalabra
             borde_der == f = Len(t) \/ t[f + 1] \notin CharsPalabra
         IN  (IF borde_izq /\ borde_der /\ f - i + 1 >= 10 /\ f - i + 1 <= 18
              THEN <<SubSeq(t, i, f)>> ELSE <<>>)
             \o CuentasDesde(t, f + 1)
CuentasEnLexema(t) == CuentasDesde(t, 1)

\* funcion_extraer_cuentas_origen_destino(lineas_grupo, es_cargo, cuenta_propia)
\* returns <<cuenta_origen, cuenta_destino>>
funcion_extraer_cuentas_origen_destino(lineas_grupo, es_cargo, cuenta_propia) ==
    LET cuentas == FindAllLexemas(Aplanar(lineas_grupo), CuentasEnLexema)
        validas == SelectSeq(cuentas, LAMBDA cuenta :
                       /\ Len(cuenta) \in {10, 11, 16, 18}
                       /\ cuenta # cuenta_propia
                       /\ ~EnPos(cuenta, 1, <<"2", "0", "2", "4">>)
                       /\ ~EnPos(cuenta, 1, <<"2", "0", "2", "5">>))
        cuenta_tercero == IF validas = <<>> THEN <<>> ELSE validas[1]
    IN  IF es_cargo THEN <<cuenta_propia, cuenta_tercero>>
        ELSE <<cuenta_tercero, cuenta_propia>>

\* funcion_es_codigo_cargo(codigo)
codigos_cargo == {<<"T", "1", "7">>, <<"A", "1", "5">>, <<"A", "1", "6">>, <<"A", "1", "7">>, <<"G", "3", "0">>, <<"S", "3", "9">>, <<"S", "4", "0">>,
                  <<"P", "1", "4">>, <<"N", "0", "6">>, <<"A", "0", "1">>, <<"E", "6", "2">>}
codigos_abono == {<<"T", "2", "0">>, <<"W", "0", "2">>, <<"T", "2", "2">>, <<"E", "5", "7">>, <<"Y", "4", "5">>, <<"F", "0", "4">>}
funcion_es_codigo_cargo(codigo) ==
    IF codigo \in codigos_cargo THEN TRUE
    ELSE IF codigo \in codigos_abono THEN FALSE
    ELSE TRUE

-----------------------------------------------------------------------------
(* Transactions as the parsers emit them.  A transaction is the dict of the *)
(* source restricted to the keys below; "Monto de la transaccion" is in     *)
(* cents.  A function that returns either a transaction or None returns a   *)
(* sequence of at most one transaction.                                     *)

K_FECHA == "Fecha de la transaccion"
K_CLASIFICACION == "Clasificacion"
K_MONTO == "Monto de la transaccion"
K_ORIGEN == "Numero de cuenta origen"
K_DESTINO == "Numero de cuenta destino"
K_SALDO_CALCULADO == "_saldo_calculado"
K_NUMERO_CUENTA == "Numero de cuenta del estado de cuenta"
K_PERIODO == "Periodo del estado de cuenta"
K_ANIO_AUX == "_anio_aux"

Ninguna == <<>>                                           \* None

transaccion(fecha, clasificacion, monto, cuentas) ==
    (K_FECHA :> fecha) @@ (K_CLASIFICACION :> clasificacion)
    @@ (K_MONTO :> monto) @@ (K_ORIGEN :> cuentas[1]) @@ (K_DESTINO :> cuentas[2])

\* "Egreso" if es_cargo else "Ingreso"
clasificacion_de(es_cargo) == IF es_cargo THEN "Egreso" ELSE "Ingreso"

-----------------------------------------------------------------------------
(* parsers/bbva_parser.py                                                   *)

\* \d{2}/[A-Z]{3} at the start of a lexeme
EmpiezaFechaBBVA(t) ==
    /\ Len(t) >= 6
    /\ TodosEn(t, 1, 2, Digitos)
    /\ t[3] = "/"
    /\ TodosEn(t, 4, 6, Mayusculas)
EsFechaBBVA(t) == Len(t) = 6 /\ EmpiezaFechaBBVA(t)
\* [A-Z]\d{2} at the start of a lexeme
EmpiezaCodigoBBVA(t) ==
    Len(t) >= 3 /\ t[1] \in Mayusculas /\ TodosEn(t, 2, 3, Digitos)

\* patron_fecha = ^\s*(\d{2}/[A-Z]{3})\s+(\d{2}/[A-Z]{3})
patron_fecha_bbva(linea) ==
    Len(linea) >= 2 /\ EsFechaBBVA(linea[1]) /\ EmpiezaFechaBBVA(linea[2])

\* match_base = ^\s*(\d{2}/[A-Z]{3})\s+(\d{2}/[A-Z]{3})\s+([A-Z]\d{2})\s+(.*)
match_base_bbva(linea) ==
    /\ Len(linea) >= 4
    /\ EsFechaBBVA(linea[1])
    /\ EsFechaBBVA(linea[2])
    /\ Len(linea[3]) = 3
    /\ EmpiezaCodigoBBVA(linea[3])

\* re.findall(r'([\d,.-]+\.\d{2})') inside one lexeme
CharsMontoBBVA == Digitos \cup {",", ".", "-"}
RECURSIVE MontosBBVADesde(_, _)
MontosBBVADesde(t, i) ==
    IF i > Len(t) THEN <<>>
    ELSE IF t[i] \notin CharsMontoBBVA THEN MontosBBVADesde(t, i + 1)
    ELSE LET f == FinCorrida(t, i, CharsMontoBBVA)
             fines == {k \in (i + 3)..f :
                          /\ t[k - 2] = "."
                          /\ t[k - 1] \in Digitos
                          /\ t[k] \in Digitos}
             fin == CHOOSE k \in fines : \A k2 \in fines : k2 <= k
         IN  IF fines = {} THEN MontosBBVADesde(t, f + 1)
             ELSE <<SubSeq(t, i, fin)>> \o MontosBBVADesde(t, fin + 1)
MontosBBVAEnLexema(t) == MontosBBVADesde(t, 1)

\* col_monto = ((?:[\d,.-]+\.\d{2})|(?:\s*-\s*)) between two gaps
EsColMonto(t) ==
    \/ t = <<"-">>
    \/ /\ Len(t) >= 4
       /\ TodosEn(t, 1, Len(t), CharsMontoBBVA)
       /\ t[Len(t) - 2] = "."
       /\ t[Len(t) - 1] \in Digitos
       /\ t[Len(t)] \in Digitos

\* patron_cols: the positions of the lexeme matched by the first col_monto,
\* after the two dates, the code and a non-empty lazy description, and
\* before a second col_monto and something more on the line
PosicionesColumnas(linea) ==
    {j \in 5..(Len(linea) - 2) : EsColMonto(linea[j]) /\ EsColMonto(linea[j + 1])}
patron_cols(linea) ==
    /\ Len(linea) >= 3
    /\ EsFechaBBVA(linea[1])
    /\ EsFechaBBVA(linea[2])
    /\ Len(linea[3]) = 3
    /\ EmpiezaCodigoBBVA(linea[3])
    /\ PosicionesColumnas(linea) # {}
PrimeraColumna(linea) ==
    CHOOSE j \in PosicionesColumnas(linea) :
        \A j2 \in PosicionesColumnas(linea) : j <= j2

\* patrones_ignorar of funcion_agrupar_lineas_transacciones, searched with
\* re.IGNORECASE in the text of the line
PalabrasIgnorar == {<<"I", "N", "F", "O", "R", "M", "A", "C", "I", "O", "N", " ", "F", "I", "N", "A", "N", "C", "I", "E", "R", "A">>,
                    <<"E", "S", "T", "A", "D", "O", " ", "D", "E", " ", "C", "U", "E", "N", "T", "A">>, <<"M", "A", "E", "S", "T", "R", "A", " ", "P", "Y", "M", "E">>, <<"D", "O", "M", "I", "C", "I", "L", "I", "O", " ", "F", "I", "S", "C", "A", "L">>,
                    <<"M", "O", "N", "E", "D", "A", " ", "N", "A", "C", "I", "O", "N", "A", "L">>, <<"B", "B", "V", "A", " ", "M", "E", "X", "I", "C", "O">>, <<"E", "S", "T", "I", "M", "A", "D", "O", " ", "C", "L", "I", "E", "N", "T", "E">>,
                    <<"F", "E", "C", "H", "A", " ", "S", "A", "L", "D", "O">>, <<"O", "P", "E", "R", " ", "L", "I", "Q">>, <<"C", "O", "D", ".", " ", "D", "E", "S", "C", "R", "I", "P", "C", "I", "O", "N">>}
es_ignorar(linea) ==
    LET texto == Upper(TextoLinea(linea))
    IN  \/ \E w \in PalabrasIgnorar : Contiene(texto, w)
        \/ \E i \in 1..Len(texto) :                       \* PAGINA\s+\d+
              /\ EnPos(texto, i, <<"P", "A", "G", "I", "N", "A", " ">>)
              /\ i + 7 <= Len(texto)
              /\ texto[i + 7] \in Digitos
        \/ /\ texto # <<>>                                \* ^[\s\-=]+$
           /\ TodosEn(texto, 1, Len(texto), {" ", "-", "="})

\* _es_linea_beneficiario(linea)
PalabrasNoBeneficiario ==
    {<<"B", "B", "V", "A">>, <<"B", "N", "E", "T">>, <<"R", "E", "F">>, <<"S", "P", "E", "I">>, <<"R", "F", "C">>, <<"A", "U", "T">>, <<"C", "U", "E", "N", "T", "A">>, <<"P", "A", "G", "O">>,
     <<"E", "S", "T", "A", "D", "O", " ", "D", "E", " ", "C", "U", "E", "N", "T", "A">>, <<"I", "N", "F", "O", "R", "M", "A", "C", "I", "O", "N">>, <<"T", "E", "C", "N", "O", "L", "O", "G", "I", "A", "S">>, <<"I", "N", "N", "O", "V", "A", "T", "I", "O", "N">>,
     <<"S", "A", " ", "D", "E", " ", "C", "V">>, <<"B", "M", "R", "C", "A", "S", "H">>, <<"P", "R", "E", "S", "T", "A", "M", "O">>, <<"F", "E", "C", "H", "A">>, <<"S", "A", "L", "D", "O">>, <<"O", "P", "E", "R">>, <<"L", "I", "Q">>,
     <<"C", "O", "D", ".", " ", "D", "E", "S", "C", "R", "I", "P", "C", "I", "O", "N">>, <<"R", "E", "F", "E", "R", "E", "N", "C", "I", "A">>, <<"C", "A", "R", "G", "O", "S">>, <<"A", "B", "O", "N", "O", "S">>}
es_linea_beneficiario(linea) ==
    LET linea_limpia == TextoLinea(linea)
        es_mayusculas == TodosEn(linea_limpia, 1, Len(linea_limpia),
                                 Mayusculas \cup {" ", "."})
        tiene_palabras == Len(linea) >= 2
        es_largo_minimo == Len(linea_limpia) > 5
        no_es_keyword == \A kw \in PalabrasNoBeneficiario :
                             ~Contiene(linea_limpia, kw)
    IN  /\ linea # <<>>
        /\ es_mayusculas /\ es_largo_minimo /\ no_es_keyword /\ tiene_palabras

\* patron_linea_rota.sub(r' \1', ...) followed by split('\n'): a line that
\* begins with \d{2}/[A-Z]{3}\s+[A-Z]\d{2} is appended to the line before it,
\* the blank lines in between disappearing
linea_rota(linea) ==
    Len(linea) >= 2 /\ EsFechaBBVA(linea[1]) /\ EmpiezaCodigoBBVA(linea[2])
RECURSIVE QuitarBlancasFinales(_)
QuitarBlancasFinales(lineas) ==
    IF Len(lineas) >= 2 /\ lineas[Len(lineas)] = <<>>
    THEN QuitarBlancasFinales(SubSeq(lineas, 1, Len(lineas) - 1))
    ELSE lineas
RECURSIVE UnirLineasRotas(_, _)
UnirLineasRotas(hechas, lineas) ==
    IF lineas = <<>> THEN hechas
    ELSE IF hechas # <<>> /\ linea_rota(lineas[1])
         THEN LET antes == QuitarBlancasFinales(hechas)
                  n == Len(antes)
              IN  UnirLineasRotas([antes EXCEPT ![n] = antes[n] \o lineas[1]],
                                  Tail(lineas))
         ELSE UnirLineasRotas(Append(hechas, lineas[1]), Tail(lineas))
seccion_corregida(lineas) == UnirLineasRotas(<<>>, lineas)

\* funcion_agrupar_lineas_transacciones(lineas): the loop, over the state
\* <<grupos, grupo_actual, linea_anterior>>
RECURSIVE AgruparBBVA(_, _, _, _)
AgruparBBVA(lineas, grupos, grupo_actual, linea_anterior) ==
    IF lineas = <<>>
    THEN IF grupo_actual # <<>> THEN Append(grupos, grupo_actual) ELSE grupos
    ELSE LET linea == lineas[1]
             resto == Tail(lineas)
             cerrados == IF grupo_actual # <<>> THEN Append(grupos, grupo_actual)
                         ELSE grupos
         IN  IF linea = <<>> THEN AgruparBBVA(resto, grupos, grupo_actual, linea_anterior)
             ELSE IF es_ignorar(linea) THEN AgruparBBVA(resto, cerrados, <<>>, <<>>)
             ELSE IF patron_fecha_bbva(linea)
                  THEN IF es_linea_beneficiario(linea_anterior)
                       THEN AgruparBBVA(resto, cerrados, <<linea_anterior, linea>>, linea)
                       ELSE AgruparBBVA(resto, cerrados, <<linea>>, linea)
             ELSE IF grupo_actual # <<>>
                  THEN AgruparBBVA(resto, grupos, Append(grupo_actual, linea), linea)
             ELSE AgruparBBVA(resto, grupos, grupo_actual, linea)
funcion_agrupar_lineas_transacciones(lineas) == AgruparBBVA(lineas, <<>>, <<>>, <<>>)

\* funcion_parsear_transaccion_individual, the multi-layout part: the pair
\* <<monto_cargo, monto_abono>> in a one-element sequence, or Ninguna where
\* the function returns None
montos_por_codigo(es_cargo, monto_transaccion) ==
    IF es_cargo THEN <<<<monto_transaccion, 0>>>> ELSE <<<<0, monto_transaccion>>>>
montos_layout(lineas_grupo, indice_linea_principal, layout) ==
    LET linea_principal == lineas_grupo[indice_linea_principal]
        codigo == linea_principal[3]
        montos_encontrados == FindAllLexemas(linea_principal, MontosBBVAEnLexema)
        num_montos == Len(montos_encontrados)
        monto_siguiente ==
            funcion_extraer_monto(TextoLinea(lineas_grupo[indice_linea_principal + 1]))
        j == PrimeraColumna(linea_principal)
    IN  IF layout = "simple"
        THEN IF num_montos = 0
             THEN IF indice_linea_principal + 1 <= Len(lineas_grupo)
                  THEN IF monto_siguiente > 0
                       THEN montos_por_codigo(funcion_es_codigo_cargo(codigo),
                                              monto_siguiente)
                       ELSE Ninguna
                  ELSE Ninguna
             ELSE IF codigo = <<"N", "0", "6">> /\ num_montos >= 2
                  THEN montos_por_codigo(FALSE,
                                         funcion_extraer_monto(montos_encontrados[1]))
                  ELSE montos_por_codigo(funcion_es_codigo_cargo(codigo),
                                         funcion_extraer_monto(montos_encontrados[1]))
        ELSE IF ~patron_cols(linea_principal)
             THEN IF num_montos >= 1
                  THEN montos_por_codigo(funcion_es_codigo_cargo(codigo),
                                         funcion_extraer_monto(montos_encontrados[1]))
                  ELSE Ninguna
             ELSE IF layout = "ca"
                  THEN <<<<funcion_extraer_monto(linea_principal[j]),
                           funcion_extraer_monto(linea_principal[j + 1])>>>>
                  ELSE <<<<funcion_extraer_monto(linea_principal[j + 1]),
                           funcion_extraer_monto(linea_principal[j])>>>>

\* funcion_parsear_transaccion_individual(lineas_grupo, metadatos, contador,
\* layout), run with the process arguments argv
funcion_parsear_transaccion_individual(lineas_grupo, metadatos, layout, argv) ==
    LET principales == {i \in 1..Len(lineas_grupo) : patron_fecha_bbva(lineas_grupo[i])}
        indice_linea_principal ==
            CHOOSE i \in principales : \A i2 \in principales : i <= i2
        linea_principal == lineas_grupo[indice_linea_principal]
        fecha_liq == linea_principal[2]
        montos == montos_layout(lineas_grupo, indice_linea_principal, layout)
        monto_cargo == montos[1][1]
        monto_abono == montos[1][2]
        es_cargo == monto_cargo > 0
        monto_transaccion == IF monto_cargo > 0 THEN monto_cargo ELSE monto_abono
        cuentas == funcion_extraer_cuentas_origen_destino(
                       lineas_grupo, es_cargo, Get(metadatos, K_NUMERO_CUENTA, <<>>))
    IN  IF principales = {} THEN Ninguna
        ELSE IF ~match_base_bbva(linea_principal) THEN Ninguna
        ELSE IF montos = Ninguna THEN Ninguna
        ELSE IF ~(monto_cargo > 0) /\ ~(monto_abono > 0) THEN Ninguna
        ELSE <<transaccion(funcion_extraer_fecha_normalizada(fecha_liq, argv),
                           clasificacion_de(es_cargo), monto_transaccion, cuentas)>>

\* funcion_extraer_todas_transacciones(texto, metadatos, layout), from the
\* lines of the movements section on: the groups it hands to the parser
grupos_bbva(lineas) == funcion_agrupar_lineas_transacciones(seccion_corregida(lineas))

-----------------------------------------------------------------------------
(* parsers/banamex_empresa_parser.py                                        *)

\* re.sub(r'CLIENTE:\s*\d+', '', s, flags=re.IGNORECASE)
FinCliente(s, i) == FinCorrida(s, FinCorrida(s, i + 8, {" "}) + 1, Digitos)
RECURSIVE QuitarCliente(_)
QuitarCliente(s) ==
    LET ps == {i \in 1..Len(s) :
                  /\ EnPosSinCaso(s, i, <<"C", "L", "I", "E", "N", "T", "E", ":">>)
                  /\ FinCliente(s, i) > FinCorrida(s, i + 8, {" "})}
        p == MinDe(ps)
    IN  IF ps = {} THEN s
        ELSE SubSeq(s, 1, p - 1) \o QuitarCliente(SubSeq(s, FinCliente(s, p) + 1, Len(s)))

\* re.sub(r'ESTADO DE CUENTA AL.*', '', s, flags=re.IGNORECASE) on one line
QuitarDesde(s, w) ==
    IF PosicionSinCaso(s, w) = 0 THEN s ELSE SubSeq(s, 1, PosicionSinCaso(s, w) - 1)

\* ^\s*\d+\.[A-Z0-9\.]+\s*$ with re.IGNORECASE
es_linea_de_clave(s) ==
    LET l == Strip(s)
        d == FinCorrida(l, 1, Digitos)
    IN  /\ d >= 1
        /\ d + 2 <= Len(l)
        /\ l[d + 1] = "."
        /\ TodosEn(l, d + 2, Len(l), Letras \cup Digitos \cup {"."})

\* funcion_limpiar_basura_banamex(texto), line by line: the patterns of the
\* source that an ASCII line can match, in the order of the source
limpiar_linea_banamex(linea) ==
    LET s1 == QuitarSinCaso(TextoLinea(linea), <<"C", "I", "T", "I", "B", "A", "N", "A", "M", "E", "X">>)
        s2 == QuitarSinCaso(s1, <<"B", "A", "N", "A", "M", "E", "X">>)
        s3 == QuitarDesde(s2, <<"E", "S", "T", "A", "D", "O", " ", "D", "E", " ", "C", "U", "E", "N", "T", "A", " ", "A", "L">>)
        s4 == QuitarCliente(s3)
        s5 == QuitarSinCaso(s4, <<"D", "E", "T", "A", "L", "L", "E", " ", "D", "E", " ", "O", "P", "E", "R", "A", "C", "I", "O", "N", "E", "S">>)
        s6 == IF es_linea_de_clave(s5) THEN <<>> ELSE s5
    IN  s6
funcion_limpiar_basura_banamex(lineas) ==
    [i \in 1..Len(lineas) |-> limpiar_linea_banamex(lineas[i])]

\* funcion_agrupar_lineas_por_fecha: its pattern
\* ^\s*(\d{1,2}\s+(?:ENE|FEB|...|DIC)) with re.IGNORECASE, on the stripped line
patron_fecha_banamex(ls) ==
    LET d == FinCorrida(ls, 1, Digitos)
        e == FinCorrida(ls, d + 1, {" "})
    IN  /\ d \in {1, 2}
        /\ e >= d + 1
        /\ \E i \in 1..12 : EnPosSinCaso(ls, e + 1, MesesTexto[i])

\* funcion_agrupar_lineas_por_fecha(lineas), over lines of text; the groups
\* hold the stripped lines, as sequences of lexemes
RECURSIVE AgruparBanamex(_, _, _)
AgruparBanamex(lineas, grupos, grupo_actual) ==
    IF lineas = <<>>
    THEN IF grupo_actual # <<>> THEN Append(grupos, grupo_actual) ELSE grupos
    ELSE LET ls == Strip(lineas[1])
             resto == Tail(lineas)
         IN  IF ls = <<>> THEN AgruparBanamex(resto, grupos, grupo_actual)
             ELSE IF patron_fecha_banamex(ls)
                  THEN AgruparBanamex(resto,
                           IF grupo_actual # <<>> THEN Append(grupos, grupo_actual)
                           ELSE grupos,
                           <<SplitPor(ls, " ")>>)
             ELSE IF grupo_actual # <<>>
                  THEN AgruparBanamex(resto, grupos,
                                      Append(grupo_actual, SplitPor(ls, " ")))
             ELSE AgruparBanamex(resto, grupos, grupo_actual)
funcion_agrupar_lineas_por_fecha(lineas) == AgruparBanamex(lineas, <<>>, <<>>)

\* re.findall(r'([\d,]+\.\d{2})') inside one lexeme
CharsMontoBanamex == Digitos \cup {","}
RECURSIVE MontosBanamexDesde(_, _)
MontosBanamexDesde(t, i) ==
    IF i > Len(t) THEN <<>>
    ELSE IF t[i] \notin CharsMontoBanamex THEN MontosBanamexDesde(t, i + 1)
    ELSE LET f == FinCorrida(t, i, CharsMontoBanamex)
         IN  IF /\ f + 3 <= Len(t)
                /\ t[f + 1] = "."
                /\ t[f + 2] \in Digitos
                /\ t[f + 3] \in Digitos
             THEN <<SubSeq(t, i, f + 3)>> \o MontosBanamexDesde(t, f + 4)
             ELSE MontosBanamexDesde(t, f + 1)
MontosBanamexEnLexema(t) == MontosBanamexDesde(t, 1)

\* _determinar_clasificacion(desc): TRUE for Egreso
PalabrasIngresoBanamex == {<<"P", "A", "G", "O", " ", "R", "E", "C", "I", "B", "I", "D", "O">>, <<"D", "E", "P", "O", "S", "I", "T", "O">>, <<"A", "B", "O", "N", "O">>, <<"D", "E", "V", "U", "E", "L", "T", "O">>,
                           <<"B", "O", "N", "I", "F", "I", "C", "A", "C", "I", "O", "N">>, <<"I", "N", "T", "E", "R", "E", "S", "E", "S", " ", "G", "A", "N", "A", "D", "O", "S">>}
PalabrasEgresoBanamex == {<<"P", "A", "G", "O", " ", "A">>, <<"P", "A", "G", "O", " ", "I", "N", "T", "E", "R", "B", "A", "N", "C", "A", "R", "I", "O">>, <<"C", "H", "E", "Q", "U", "E">>, <<"C", "O", "M", "I", "S", "I", "O", "N">>,
                          <<"R", "E", "T", "I", "R", "O">>, <<"C", "A", "R", "G", "O">>, <<"T", "R", "A", "S", "P", "A", "S", "O", " ", "E", "N", "T", "R", "E">>, <<"I", "N", "V", "E", "R", "S", "I", "O", "N">>}
determinar_clasificacion(desc) ==
    LET d == Upper(desc)
    IN  IF \E x \in PalabrasIngresoBanamex : Contiene(d, x) THEN FALSE
        ELSE IF \E x \in PalabrasEgresoBanamex : Contiene(d, x) THEN TRUE
        ELSE TRUE

\* the year funcion_extraer_todas_transacciones reads from the period:
\* re.search(r'(\d{4})'), '2025' when there is no period or no such run
anio_banamex(metadatos) ==
    LET periodo == Get(metadatos, K_PERIODO, <<>>)
        inicios == {i \in 1..(Len(periodo) - 3) : TodosEn(periodo, i, i + 3, Digitos)}
        i0 == CHOOSE i \in inicios : \A j \in inicios : i <= j
    IN  IF inicios = {} THEN <<"2", "0", "2", "5">> ELSE SubSeq(periodo, i0, i0 + 3)

\* funcion_procesar_grupo_transaccion(lineas, anio, contador, cuenta_propia),
\* run with the process arguments argv
funcion_procesar_grupo_transaccion(lineas, anio, cuenta_propia, argv) ==
    LET bloque_texto == TextoBloque(lineas)
        primera == TextoLinea(lineas[1])
        d == FinCorrida(primera, 1, Digitos)
        e == FinCorrida(primera, d + 1, {" "})
        m_fecha == /\ d \in {1, 2}                \* ^(\d{1,2}\s+[A-Z]{3})
                   /\ e >= d + 1
                   /\ e + 3 <= Len(primera)
                   /\ TodosEn(primera, e + 1, e + 3, Letras)
        fecha_raw == SubSeq(primera, 1, e + 3)
        fecha_str == ReemplazarChar(fecha_raw \o <<"/">> \o anio, " ", "/")
        fecha == funcion_extraer_fecha_normalizada(fecha_str, argv)
        montos == FindAllLexemas(Aplanar(lineas), MontosBanamexEnLexema)
        n == Len(montos)
        monto == IF n >= 2 THEN funcion_extraer_monto(montos[n - 1])
                 ELSE funcion_extraer_monto(montos[1])
        texto_analisis == IF n >= 2 THEN Quitar(Quitar(bloque_texto, montos[n]), montos[n - 1])
                          ELSE Quitar(bloque_texto, montos[1])
        es_egreso == determinar_clasificacion(texto_analisis)
        cuentas == funcion_extraer_cuentas_origen_destino(lineas, es_egreso, cuenta_propia)
    IN  IF ~m_fecha THEN Ninguna
        ELSE IF n = 0 THEN Ninguna
        ELSE <<transaccion(fecha, clasificacion_de(es_egreso), monto, cuentas)>>

\* funcion_extraer_todas_transacciones(texto, metadatos), from the lines
\* after the heading on: the groups it hands to the processing function
grupos_banamex(lineas) ==
    funcion_agrupar_lineas_por_fecha(funcion_limpiar_basura_banamex(lineas))

-----------------------------------------------------------------------------
(* parsers/inbursa_parser.py.  Here a text is one sequence of characters    *)
(* with "\n" between its lines.                                             *)

Blancos == {" ", "\n"}                                    \* \s
HaySalto(s, i, j) == \E k \in i..j : s[k] = "\n"

\* the end of \d{1,2} taken at position q, or q - 1 when s[q] is no digit
FinDia(s, q) ==
    IF q + 1 <= Len(s) /\ s[q] \in Digitos /\ s[q + 1] \in Digitos THEN q + 1
    ELSE IF q <= Len(s) /\ s[q] \in Digitos THEN q
    ELSE q - 1
BordePalabra(s, i) == i < 1 \/ i > Len(s) \/ s[i] \notin CharsPalabra

\* patron_mes_dia.sub(r'\2 \1'), the pattern being
\* \b([A-Za-z]{3}\.?)\s*\n+\s*(\d{1,2})\b
FinMes(s, i) == IF i + 3 <= Len(s) /\ s[i + 3] = "." THEN i + 3 ELSE i + 2
FinBlancos(s, p) == FinCorrida(s, p + 1, Blancos)
coincide_mes_dia(s, i) ==
    /\ BordePalabra(s, i - 1)
    /\ i + 2 <= Len(s)
    /\ TodosEn(s, i, i + 2, Letras)
    /\ HaySalto(s, FinMes(s, i) + 1, FinBlancos(s, FinMes(s, i)))
    /\ FinDia(s, FinBlancos(s, FinMes(s, i)) + 1) > FinBlancos(s, FinMes(s, i))
    /\ BordePalabra(s, FinDia(s, FinBlancos(s, FinMes(s, i)) + 1) + 1)
\* a normaliser that leaves a month above its day as it finds them
SubMesDia_sin_reunir(s, desde) == SubSeq(s, desde, Len(s))
RECURSIVE SubMesDia(_, _)
SubMesDia(s, desde) ==
    LET ps == {i \in desde..Len(s) : coincide_mes_dia(s, i)}
        i == MinDe(ps)
        p == FinMes(s, i)
        w == FinBlancos(s, p)
        fin == FinDia(s, w + 1)
    IN  IF ps = {} THEN SubSeq(s, desde, Len(s))
        ELSE SubSeq(s, desde, i - 1)
             \o SubSeq(s, w + 1, fin) \o <<" ">> \o SubSeq(s, i, p)
             \o SubMesDia(s, fin + 1)

\* patron_dia_mes.sub(r'\1 \2'), the pattern being
\* \b(\d{1,2})\s*\n+\s*([A-Za-z]{3}\.?)
coincide_dia_mes(s, i) ==
    /\ BordePalabra(s, i - 1)
    /\ FinDia(s, i) >= i
    /\ HaySalto(s, FinDia(s, i) + 1, FinBlancos(s, FinDia(s, i)))
    /\ FinBlancos(s, FinDia(s, i)) + 3 <= Len(s)
    /\ TodosEn(s, FinBlancos(s, FinDia(s, i)) + 1, FinBlancos(s, FinDia(s, i)) + 3, Letras)
RECURSIVE SubDiaMes(_, _)
SubDiaMes(s, desde) ==
    LET ps == {i \in desde..Len(s) : coincide_dia_mes(s, i)}
        i == MinDe(ps)
        p == FinDia(s, i)
        w == FinBlancos(s, p)
        fin == FinMes(s, w + 1)
    IN  IF ps = {} THEN SubSeq(s, desde, Len(s))
        ELSE SubSeq(s, desde, i - 1)
             \o SubSeq(s, i, p) \o <<" ">> \o SubSeq(s, w + 1, fin)
             \o SubDiaMes(s, fin + 1)

\* the lines funcion_normalizar_texto_inbursa drops
es_linea_basura(linea) ==
    LET l == Strip(linea)
    IN  \/ Contiene(l, <<"T", "h", "e", " ", "f", "o", "l", "l", "o", "w", "i", "n", "g", " ", "t", "a", "b", "l", "e">>)
        \/ l # <<>> /\ TodosEn(l, 1, Len(l), {","})
        \/ l = <<>>

\* funcion_normalizar_texto_inbursa(texto)
funcion_normalizar_texto_inbursa(texto) ==
    LET texto_out == SubDiaMes(SubMesDia(texto, 1), 1)
        lineas_limpias == SelectSeq(SplitPor(texto_out, "\n"),
                                    LAMBDA linea : ~es_linea_basura(linea))
    IN  Unir(lineas_limpias, <<"\n">>)

\* patron_inicio_tx = ^\s*\d{1,2}\s+[A-Za-z]{3}\.? and the match_fecha of
\* funcion_procesar_bloque_transaccion, on one line: where the day starts
\* and ends and where the month starts
InicioDia(linea) == FinCorrida(linea, 1, {" "}) + 1
InicioMes(linea) == FinCorrida(linea, FinDia(linea, InicioDia(linea)) + 1, {" "}) + 1
patron_inicio_tx(linea) ==
    LET a == InicioDia(linea)
        b == FinDia(linea, a)
        c == InicioMes(linea)
    IN  /\ b >= a
        /\ c >= b + 2
        /\ c + 2 <= Len(linea)
        /\ TodosEn(linea, c, c + 2, Letras)

\* re.findall(r'(\d{1,3}(?:,\d{3})*\.\d{2})') inside one lexeme
RECURSIVE FinGrupos(_, _)
FinGrupos(t, e) ==
    IF e + 4 <= Len(t) /\ t[e + 1] = "," /\ TodosEn(t, e + 2, e + 4, Digitos)
    THEN FinGrupos(t, e + 4) ELSE e
RECURSIVE MontosInbursaDesde(_, _)
MontosInbursaDesde(t, i) ==
    IF i > Len(t) THEN <<>>
    ELSE IF t[i] \notin Digitos THEN MontosInbursaDesde(t, i + 1)
    ELSE LET f == FinCorrida(t, i, Digitos)
             s0 == IF f - i + 1 > 3 THEN f - 2 ELSE i
             e == FinGrupos(t, f)
             coincide == /\ e + 3 <= Len(t)
                         /\ t[e + 1] = "."
                         /\ t[e + 2] \in Digitos
                         /\ t[e + 3] \in Digitos
         IN  IF coincide
             THEN <<SubSeq(t, s0, e + 3)>> \o MontosInbursaDesde(t, e + 4)
             ELSE MontosInbursaDesde(t, s0 + 1)
MontosInbursaEnLexema(t) == MontosInbursaDesde(t, 1)

\* funcion_clasificar_por_texto(texto): TRUE for a charge
PalabrasIngresoInbursa == {<<"D", "E", "P", "O", "S", "I", "T", "O">>, <<"A", "B", "O", "N", "O">>, <<"R", "E", "C", "E", "P", "C", "I", "O", "N">>,
                           <<"I", "N", "T", "E", "R", "E", "S", "E", "S", " ", "G", "A", "N", "A", "D", "O", "S">>, <<"T", "R", "A", "S", "P", "A", "S", "O", " ", "D", "E", " ", "T", "E", "R", "C", "E", "R", "O", "S">>}
funcion_clasificar_por_texto(texto) ==
    ~(\E x \in PalabrasIngresoInbursa : Contiene(Upper(texto), x))

\* funcion_extraer_todas_transacciones(texto, metadatos), up to its loop:
\* the lines of texto[inicio_movs:fin_movs], a one-element sequence, or
\* Ninguna when no heading is found
ClavesInicioMovs == <<<<"D", "E", "T", "A", "L", "L", "E", " ", "D", "E", " ", "M", "O", "V", "I", "M", "I", "E", "N", "T", "O", "S">>, <<"M", "O", "V", "I", "M", "I", "E", "N", "T", "O", "S", " ", "D", "E", "L", " ", "P", "E", "R", "I", "O", "D", "O">>,
                     <<"F", "E", "C", "H", "A", " ", "R", "E", "F", "E", "R", "E", "N", "C", "I", "A", " ", "C", "O", "N", "C", "E", "P", "T", "O">>>>
StopWords == {<<"R", "E", "S", "U", "M", "E", "N", " ", "D", "E", "L", " ", "C", "F", "D", "I">>, <<"T", "I", "M", "B", "R", "E", " ", "F", "I", "S", "C", "A", "L">>, <<"S", "E", "L", "L", "O", " ", "D", "I", "G", "I", "T", "A", "L">>,
              <<"C", "A", "D", "E", "N", "A", " ", "O", "R", "I", "G", "I", "N", "A", "L">>, <<"G", "L", "O", "S", "A", "R", "I", "O", " ", "D", "E", " ", "A", "B", "R", "E", "V", "I", "A", "T", "U", "R", "A", "S">>}
lineas_seccion_inbursa(texto) ==
    LET t == Upper(texto)
        claves == {k \in 1..Len(ClavesInicioMovs) : Contiene(t, ClavesInicioMovs[k])}
        clave == ClavesInicioMovs[CHOOSE k \in claves : \A k2 \in claves : k <= k2]
        inicio_movs == PosicionDe(t, clave)
        resto == SubSeq(t, inicio_movs, Len(t))
        fines == {inicio_movs + PosicionDe(resto, w) - 1 :
                     w \in {x \in StopWords : Contiene(resto, x)}}
        fin_movs == IF fines = {} THEN Len(t) + 1
                    ELSE CHOOSE f \in fines : \A f2 \in fines : f <= f2
    IN  IF claves = {} THEN Ninguna
        ELSE <<SplitPor(SubSeq(texto, inicio_movs, fin_movs - 1), "\n")>>

\* mapa_meses.get(mes_str, '00') of funcion_procesar_bloque_transaccion
mapa_meses_get(mes_str) == meses_get(mes_str, <<"0", "0">>)

\* dia.zfill(2)
zfill2(dia) == IF Len(dia) < 2 THEN <<"0">> \o dia ELSE dia

\* funcion_procesar_bloque_transaccion(lineas, metadatos, anio,
\* transacciones_previas); lineas are lines of text
funcion_procesar_bloque_transaccion(lineas, metadatos, anio, transacciones_previas) ==
    LET texto_bloque == Unir(lineas, <<" ">>)
        match_fecha == patron_inicio_tx(lineas[1])
        a == InicioDia(lineas[1])
        c == InicioMes(lineas[1])
        dia == zfill2(SubSeq(lineas[1], a, FinDia(lineas[1], a)))
        mes_str == Upper(SubSeq(lineas[1], c, c + 2))
        mes_num == mapa_meses_get(mes_str)
        fecha_fmt == dia \o <<"/">> \o mes_num \o <<"/">> \o anio
        montos_strs == FindAllLexemas(Lexemas(texto_bloque), MontosInbursaEnLexema)
        n == Len(montos_strs)
        saldo_momento == IF n >= 2 THEN funcion_extraer_monto(montos_strs[n]) ELSE 0
        monto_tx == IF n >= 2 THEN funcion_extraer_monto(montos_strs[n - 1])
                    ELSE IF n = 1 THEN funcion_extraer_monto(montos_strs[1])
                    ELSE 0
        saldo_previo ==
            IF transacciones_previas # <<>>
            THEN Get(transacciones_previas[Len(transacciones_previas)], K_SALDO_CALCULADO, 0)
            ELSE Get(metadatos, "saldo_inicial", 0)
        diff_cargo == Abs(saldo_previo - monto_tx - saldo_momento)
        diff_abono == Abs(saldo_previo + monto_tx - saldo_momento)
        es_cargo == IF saldo_previo > 0 /\ saldo_momento > 0
                    THEN IF diff_cargo < 100 THEN TRUE
                         ELSE IF diff_abono < 100 THEN FALSE
                         ELSE funcion_clasificar_por_texto(texto_bloque)
                    ELSE funcion_clasificar_por_texto(texto_bloque)
        lineas_grupo == [i \in 1..Len(lineas) |-> SplitPor(lineas[i], " ")]
        cuentas == funcion_extraer_cuentas_origen_destino(
                       lineas_grupo, es_cargo, Get(metadatos, "numero_cuenta", <<>>))
        saldo_calculado == IF saldo_momento > 0 THEN saldo_momento
                           ELSE IF es_cargo THEN saldo_previo - monto_tx
                           ELSE saldo_previo + monto_tx
    IN  IF ~match_fecha THEN Ninguna
        ELSE IF monto_tx = 0 THEN Ninguna
        ELSE <<transaccion(fecha_fmt, clasificacion_de(es_cargo), monto_tx, cuentas)
               @@ (K_SALDO_CALCULADO :> saldo_calculado)>>

-----------------------------------------------------------------------------
(* SpecBalance: one call of validar_balance on inputs drawn from small sets *)

MaxTx == 2                                 \* longest transaction list

AMOUNT_10   == <<"$", "1", "0", ".", "0", "0">>
AMOUNT_5    == <<"5", ".", "0", "0">>
AMOUNT_5_01 == <<"5", ".", "0", "1">>
AMOUNT_5_02 == <<"5", ".", "0", "2">>
AMOUNT_3    == <<"3", ".", "0", "0">>
AMOUNT_3_0  == <<"3", ".", "0">>
AMOUNT_2    == <<"2", ".", "0", "0">>
AMOUNT_1    == <<"1", ".", "0", "0">>
AMOUNT_12    == <<"1", "2", ".", "0", "0">>
AMOUNT_12_01 == <<"1", "2", ".", "0", "1">>
AMOUNT_12_02 == <<"1", "2", ".", "0", "2">>
AMOUNT_MALO  == <<"1", ".", "2", ".", "3">>          \* rejected by Decimal

\* an option is <<>> (key absent) or <<value>>
Campo(k, opcion) == IF opcion = <<>> THEN <<>> ELSE k :> opcion[1]

OpcionesSaldoInicial   == {<<>>, <<Txt(AMOUNT_10)>>}
OpcionesTotalDepositos == {<<Txt(AMOUNT_5)>>, <<Txt(AMOUNT_5_01)>>, <<Txt(AMOUNT_5_02)>>}
OpcionesTotalRetiros   == {<<Txt(AMOUNT_3)>>, <<Txt(AMOUNT_3_0)>>, <<Txt(AMOUNT_MALO)>>}
OpcionesSaldoFinal     ==
    {<<Txt(AMOUNT_12)>>, <<Txt(AMOUNT_12_01)>>, <<Txt(AMOUNT_12_02)>>, <<Txt(AMOUNT_2)>>}

\* a dict with the keys validar_balance reads
TxValidador(monto, clasificacion) ==
    [monto |-> monto, clasificacion |-> clasificacion]

\* a dict as the parsers build it: none of the keys validar_balance reads
TxParser == ("Monto de la transaccion" :> Txt(AMOUNT_5))
            @@ ("Clasificacion" :> "Ingreso")

TxEntradas ==
    {TxValidador(Txt(AMOUNT_5), "Ingreso"), TxValidador(Txt(AMOUNT_3), "Egreso"),
     TxValidador(Txt(AMOUNT_2), "Ingreso"), TxValidador(Txt(AMOUNT_3_0), "Ingreso"),
     TxValidador(Txt(AMOUNT_1), "Egreso"),  TxValidador(Nulo, "Egreso"),
     TxParser}

InitBalance ==
    /\ vb_pc = "entrada"
    /\ \E si \in OpcionesSaldoInicial, td \in OpcionesTotalDepositos,
          tr \in OpcionesTotalRetiros, sf \in OpcionesSaldoFinal :
          vb_datos = Campo("saldo_inicial", si) @@ Campo("total_depositos", td)
                     @@ Campo("total_retiros", tr) @@ Campo("saldo_final", sf)
    /\ vb_txs = <<>>
    /\ vb_reporte = reporte_inicial
    /\ ParserEnReposo /\ PipelineEnReposo /\ CorridasEnReposo /\ PeriodoEnReposo /\ CruzadaEnReposo /\ ProcesarEnReposo /\ NormalizarEnReposo /\ SaldoPromedioEnReposo /\ MetadatosEnReposo /\ CSVEnReposo /\ AgruparEnReposo /\ ResumenEnReposo /\ MetodoPagoEnReposo

\* the caller builds the list passed as transacciones
AgregarTransaccion ==
    /\ vb_pc = "entrada"
    /\ Len(vb_txs) < MaxTx
    /\ \E tx \in TxEntradas : vb_txs' = Append(vb_txs, tx)
    /\ UNCHANGED <<vb_pc, vb_datos, vb_reporte, varsParser, varsPipeline, varsCorridas, varsPeriodo, varsCruzada, varsProcesar, varsNormalizar, varsSaldoPromedio, varsMetadatos, varsCSV, varsAgrupar, varsResumen, varsMetodoPago>>

ValidarBalance ==
    /\ vb_pc = "entrada"
    /\ vb_reporte' = validar_balance(vb_datos, vb_txs)
    /\ vb_pc' = "retornado"
    /\ UNCHANGED <<vb_datos, vb_txs, varsParser, varsPipeline, varsCorridas, varsPeriodo, varsCruzada, varsProcesar, varsNormalizar, varsSaldoPromedio, varsMetadatos, varsCSV, varsAgrupar, varsResumen, varsMetodoPago>>

NextBalance == AgregarTransaccion \/ ValidarBalance

SpecBalance == InitBalance /\ [][NextBalance]_vars

-----------------------------------------------------------------------------
(* Claims about validar_balance                                             *)

\* the quantities the claims speak of, computed from the inputs alone
vb_opening     == limpiar_monto(Get(vb_datos, "saldo_inicial", TxtCero))
vb_closing     == limpiar_monto(Get(vb_datos, "saldo_final", TxtCero))
vb_deposits    == limpiar_monto(Get(vb_datos, "total_depositos", TxtCero))
vb_withdrawals == limpiar_monto(Get(vb_datos, "total_retiros", TxtCero))
vb_sum_ingreso == total_calculado(vb_txs, "Ingreso")
vb_sum_egreso  == total_calculado(vb_txs, "Egreso")
Cerca(a, b) == DecLeq(DecAbs(DecSub(a, b)), Dec(1, 2))

C1_Premisa ==
    /\ Cerca(vb_deposits, vb_sum_ingreso)
    /\ Cerca(vb_withdrawals, vb_sum_egreso)
    /\ Cerca(vb_closing, DecSub(DecAdd(vb_opening, vb_deposits), vb_withdrawals))

\* C1: whenever the declared deposits and withdrawals equal the summed Ingreso
\* and Egreso amounts and closing = opening + deposits - withdrawals, each
\* within 0.01, validar_balance returns totales_coherentes = TRUE and
\* balance_coherente = TRUE.
C1_AmbasCoherentes ==
    (vb_pc = "retornado" /\ C1_Premisa)
        => (vb_reporte.totales_coherentes /\ vb_reporte.balance_coherente)

\* reached: a call whose differences are exactly 0.01 (declared deposits 5.01
\* against a sum of 5.00, closing 12.02 against 12.01) returned both flags
C1_Witness ==
    /\ vb_pc = "retornado"
    /\ C1_Premisa
    /\ Len(vb_txs) = 2
    /\ ~DecEq(vb_deposits, vb_sum_ingreso)
    /\ ~DecEq(vb_closing, DecSub(DecAdd(vb_opening, vb_deposits), vb_withdrawals))
    /\ vb_reporte.totales_coherentes /\ vb_reporte.balance_coherente

\* C2 as stated: balance_coherente is TRUE exactly when the closing balance is
\* within 0.01 of opening + (sum of Ingreso) - (sum of Egreso), the sums taken
\* over the transaction list.
C2_BalancePorTransacciones ==
    vb_pc = "retornado"
        => (vb_reporte.balance_coherente
              <=> Cerca(vb_closing,
                        DecSub(DecAdd(vb_opening, vb_sum_ingreso), vb_sum_egreso)))

\* C2 amended: balance_coherente is TRUE exactly when the closing balance is
\* within 0.01 of opening + declared total_depositos - declared total_retiros;
\* the transaction list plays no part in it.
C2_BalancePorDeclarados ==
    vb_pc = "retornado"
        => (vb_reporte.balance_coherente
              <=> Cerca(vb_closing,
                        DecSub(DecAdd(vb_opening, vb_deposits), vb_withdrawals)))

\* reached: the declared totals close the balance while the transactions do
\* not, and the flag is TRUE
C2_Witness ==
    /\ vb_pc = "retornado"
    /\ vb_reporte.balance_coherente
    /\ ~vb_reporte.totales_coherentes
    /\ ~Cerca(vb_closing, DecSub(DecAdd(vb_opening, vb_sum_ingreso), vb_sum_egreso))

-----------------------------------------------------------------------------
(* SpecParser: one run of a bank's transaction extraction, on a statement   *)
(* whose heading part is given by the metadata read from it and whose       *)
(* movements part is a sequence of lines drawn from a small vocabulary.     *)

MaxLineas == 3

CUENTA_PROPIA == <<"0", "1", "2", "3", "4", "5", "6", "7", "8", "9">>
CUENTA_TERCERO == <<"9", "8", "7", "6", "5", "4", "3", "2", "1", "0">>

LineasBBVA == {
    <<<<"0", "1", "/", "A", "B", "R">>, <<"0", "1", "/", "A", "B", "R">>, <<"T", "1", "7">>, <<"S", "P", "E", "I">>, <<"E", "N", "V", "I", "A", "D", "O">>, <<"5", "0", "0", ".", "0", "0">>>>,
    <<<<"0", "2", "/", "A", "B", "R">>, <<"0", "2", "/", "A", "B", "R">>, <<"T", "2", "0">>, <<"S", "P", "E", "I">>, <<"R", "E", "C", "I", "B", "I", "D", "O">>, <<"9", "8", "7", "6", "5", "4", "3", "2", "1", "0">>, <<"2", "5", "0", ".", "0", "0">>, <<"1", ",", "2", "5", "0", ".", "0", "0">>>>,
    <<<<"0", "3", "/", "A", "B", "R">>, <<"0", "3", "/", "A", "B", "R">>, <<"N", "0", "6">>, <<"P", "A", "G", "O">>, <<"C", "U", "E", "N", "T", "A">>>>,
    <<<<"R", "E", "F">>, <<"0", "0", "1", "2", "3", "4", "5", "6", "7", "8">>>>,
    <<<<"0", "4", "/", "A", "B", "R">>, <<"0", "4", "/", "A", "B", "R">>, <<"S", "3", "9">>, <<"C", "O", "M", "I", "S", "I", "O", "N">>, <<"0", ".", "0", "0">>>>,
    <<<<"0", "5", "/", "A", "B", "R">>, <<"0", "5", "/", "A", "B", "R">>, <<"T", "1", "7">>, <<"S", "P", "E", "I">>, <<"0", "1", "2", "3", "4", "5", "6", "7", "8", "9">>, <<"1", "0", "0", ".", "0", "0">>, <<"-">>, <<"9", "0", "0", ".", "0", "0">>>>}
LineasBanamex == {
    <<<<"0", "5">>, <<"E", "N", "E">>, <<"P", "A", "G", "O">>, <<"R", "E", "C", "I", "B", "I", "D", "O">>, <<"9", "8", "7", "6", "5", "4", "3", "2", "1", "0">>, <<"3", "0", "0", ".", "0", "0">>, <<"1", ",", "3", "0", "0", ".", "0", "0">>>>,
    <<<<"0", "6">>, <<"E", "N", "E">>, <<"C", "O", "M", "I", "S", "I", "O", "N">>, <<"0", ".", "0", "0">>, <<"1", ",", "3", "0", "0", ".", "0", "0">>>>,
    <<<<"0", "7">>, <<"E", "N", "E">>, <<"C", "H", "E", "Q", "U", "E">>, <<"1", "5", "0", ".", "0", "0">>>>,
    <<<<"R", "E", "F">>, <<"0", "0", "1", "2", "3", "4", "5", "6", "7", "8">>>>,
    <<<<"0", "8">>, <<"E", "N", "E">>, <<"R", "E", "T", "I", "R", "O">>>>,
    <<<<"C", "U", "E", "N", "T", "A">>, <<"0", "1", "2", "3", "4", "5", "6", "7", "8", "9">>, <<"B", "A", "N", "A", "M", "E", "X">>>>}
LineasInbursa == {
    <<<<"0", "1">>, <<"A", "B", "R", ".">>, <<"1", "2", "3", "4", "5">>, <<"D", "E", "P", "O", "S", "I", "T", "O">>, <<"S", "P", "E", "I">>, <<"5", "0", "0", ".", "0", "0">>, <<"1", ",", "5", "0", "0", ".", "0", "0">>>>,
    <<<<"0", "2">>, <<"A", "B", "R">>, <<"C", "O", "M", "I", "S", "I", "O", "N">>, <<"0", ".", "0", "0">>, <<"1", ",", "5", "0", "0", ".", "0", "0">>>>,
    <<<<"0", "3">>, <<"A", "B", "R">>, <<"C", "A", "R", "G", "O">>, <<"9", "8", "7", "6", "5", "4", "3", "2", "1", "0">>, <<"2", "0", "0", ".", "0", "0">>, <<"1", ",", "3", "0", "0", ".", "0", "0">>>>,
    <<<<"C", "U", "E", "N", "T", "A">>, <<"0", "1", "2", "3", "4", "5", "6", "7", "8", "9">>>>,
    <<<<"0", "4">>, <<"A", "B", "R">>, <<"T", "R", "A", "S", "P", "A", "S", "O">>>>,
    <<<<"A", "B", "R", ".">>>>}
EncabezadoInbursa == <<<<"D", "E", "T", "A", "L", "L", "E">>, <<"D", "E">>, <<"M", "O", "V", "I", "M", "I", "E", "N", "T", "O", "S">>>>

SecuenciasHasta(V, n) == UNION {[1..k -> V] : k \in 1..n}

Layouts == {"simple", "ca", "ac"}
Argvs == {<<<<"m", "a", "i", "n", "_", "e", "x", "t", "r", "a", "c", "t", "o", "r", ".", "p", "y">>>>,
          <<<<"m", "a", "i", "n", "_", "e", "x", "t", "r", "a", "c", "t", "o", "r", ".", "p", "y">>, <<"e", "s", "t", "a", "d", "o", "_", "2", "0", "2", "4", ".", "p", "d", "f">>>>}
CuentasEstado == {<<>>, CUENTA_PROPIA}
PeriodosBBVA == {<<"0", "1", "A", "B", "R", "2", "0", "2", "4", "_", "3", "0", "A", "B", "R", "2", "0", "2", "4">>, <<"0", "1", "A", "B", "R", "2", "0", "2", "5", "_", "3", "0", "A", "B", "R", "2", "0", "2", "5">>}
PeriodosBanamex == {<<"0", "1", "E", "N", "E", "2", "0", "2", "4", "_", "3", "1", "E", "N", "E", "2", "0", "2", "4">>, <<"0", "1", "E", "N", "E", "2", "0", "2", "5", "_", "3", "1", "E", "N", "E", "2", "0", "2", "5">>}
AniosInbursa == {<<"2", "0", "2", "4">>, <<"2", "0", "2", "5">>}
SaldosIniciales == {<<>>, <<0>>, <<100000>>}

InitParser ==
    /\ BalanceEnReposo /\ PipelineEnReposo /\ CorridasEnReposo /\ PeriodoEnReposo /\ CruzadaEnReposo /\ ProcesarEnReposo /\ NormalizarEnReposo /\ SaldoPromedioEnReposo /\ MetadatosEnReposo /\ CSVEnReposo /\ AgruparEnReposo /\ ResumenEnReposo /\ MetodoPagoEnReposo
    /\ pp_pc = "entrada"
    /\ pp_banco \in {"bbva", "banamex", "inbursa"}
    /\ \/ /\ pp_banco = "bbva"
          /\ pp_layout \in Layouts
          /\ pp_argv \in Argvs
          /\ \E cuenta \in CuentasEstado, periodo \in PeriodosBBVA :
                pp_metadatos = (K_NUMERO_CUENTA :> cuenta) @@ (K_PERIODO :> periodo)
          /\ pp_saldo_inicial = <<>>
          /\ pp_lineas \in SecuenciasHasta(LineasBBVA, MaxLineas)
       \/ /\ pp_banco = "banamex"
          /\ pp_layout = ""
          /\ pp_argv \in Argvs
          /\ \E cuenta \in CuentasEstado, periodo \in PeriodosBanamex :
                pp_metadatos = (K_NUMERO_CUENTA :> cuenta) @@ (K_PERIODO :> periodo)
          /\ pp_saldo_inicial = <<>>
          /\ pp_lineas \in SecuenciasHasta(LineasBanamex, MaxLineas)
       \/ /\ pp_banco = "inbursa"
          /\ pp_layout = ""
          /\ pp_argv = <<<<"m", "a", "i", "n", "_", "e", "x", "t", "r", "a", "c", "t", "o", "r", ".", "p", "y">>>>
          /\ \E cuenta \in CuentasEstado, anio \in AniosInbursa :
                pp_metadatos = (K_NUMERO_CUENTA :> cuenta) @@ (K_ANIO_AUX :> anio)
                               @@ (K_PERIODO :> <<"P", "E", "R", "I", "O", "D", "O", "_", "N", "O", "_", "D", "E", "F", "I", "N", "I", "D", "O">>)
          /\ pp_saldo_inicial \in SaldosIniciales
          /\ \E s \in SecuenciasHasta(LineasInbursa, MaxLineas) :
                pp_lineas = <<EncabezadoInbursa>> \o s
    /\ pp_grupos = <<>>
    /\ pp_idx = 0
    /\ pp_bloque_actual = <<>>
    /\ pp_transacciones = <<>>
    /\ pp_bloques = <<>>

\* what a block adds to the two lists: the transaction, if one is returned,
\* and the block it was made from
Emitir(tx, bloque) ==
    /\ pp_transacciones' = pp_transacciones \o tx
    /\ pp_bloques' = IF tx = Ninguna THEN pp_bloques ELSE Append(pp_bloques, bloque)

\* bbva_parser.funcion_extraer_todas_transacciones, up to its loop
BBVAAgrupar ==
    /\ pp_pc = "entrada" /\ pp_banco = "bbva"
    /\ pp_grupos' = grupos_bbva(pp_lineas)
    /\ pp_idx' = 1
    /\ pp_pc' = "bucle"
    /\ UNCHANGED <<pp_banco, pp_layout, pp_argv, pp_metadatos, pp_saldo_inicial,
                   pp_lineas, pp_bloque_actual, pp_transacciones, pp_bloques>>
    /\ UNCHANGED <<varsBalance, varsPipeline, varsCorridas, varsPeriodo, varsCruzada, varsProcesar, varsNormalizar, varsSaldoPromedio, varsMetadatos, varsCSV, varsAgrupar, varsResumen, varsMetodoPago>>

\* one turn of its loop: funcion_parsear_transaccion_individual on a group
BBVAParsear ==
    /\ pp_pc = "bucle" /\ pp_banco = "bbva"
    /\ pp_idx <= Len(pp_grupos)
    /\ Emitir(funcion_parsear_transaccion_individual(
                  pp_grupos[pp_idx], pp_metadatos, pp_layout, pp_argv),
              pp_grupos[pp_idx])
    /\ pp_idx' = pp_idx + 1
    /\ UNCHANGED <<pp_pc, pp_banco, pp_layout, pp_argv, pp_metadatos, pp_saldo_inicial,
                   pp_lineas, pp_grupos, pp_bloque_actual>>
    /\ UNCHANGED <<varsBalance, varsPipeline, varsCorridas, varsPeriodo, varsCruzada, varsProcesar, varsNormalizar, varsSaldoPromedio, varsMetadatos, varsCSV, varsAgrupar, varsResumen, varsMetodoPago>>

\* banamex_empresa_parser.funcion_extraer_todas_transacciones, up to its loop
BanamexAgrupar ==
    /\ pp_pc = "entrada" /\ pp_banco = "banamex"
    /\ pp_grupos' = grupos_banamex(pp_lineas)
    /\ pp_idx' = 1
    /\ pp_pc' = "bucle"
    /\ UNCHANGED <<pp_banco, pp_layout, pp_argv, pp_metadatos, pp_saldo_inicial,
                   pp_lineas, pp_bloque_actual, pp_transacciones, pp_bloques>>
    /\ UNCHANGED <<varsBalance, varsPipeline, varsCorridas, varsPeriodo, varsCruzada, varsProcesar, varsNormalizar, varsSaldoPromedio, varsMetadatos, varsCSV, varsAgrupar, varsResumen, varsMetodoPago>>

\* one turn of its loop: funcion_procesar_grupo_transaccion on a group
BanamexProcesar ==
    /\ pp_pc = "bucle" /\ pp_banco = "banamex"
    /\ pp_idx <= Len(pp_grupos)
    /\ Emitir(funcion_procesar_grupo_transaccion(
                  pp_grupos[pp_idx], anio_banamex(pp_metadatos),
                  Get(pp_metadatos, K_NUMERO_CUENTA, <<>>), pp_argv),
              pp_grupos[pp_idx])
    /\ pp_idx' = pp_idx + 1
    /\ UNCHANGED <<pp_pc, pp_banco, pp_layout, pp_argv, pp_metadatos, pp_saldo_inicial,
                   pp_lineas, pp_grupos, pp_bloque_actual>>
    /\ UNCHANGED <<varsBalance, varsPipeline, varsCorridas, varsPeriodo, varsCruzada, varsProcesar, varsNormalizar, varsSaldoPromedio, varsMetadatos, varsCSV, varsAgrupar, varsResumen, varsMetodoPago>>

\* the end of either loop: return transacciones
Retornar ==
    /\ pp_pc = "bucle" /\ pp_banco \in {"bbva", "banamex"}
    /\ pp_idx > Len(pp_grupos)
    /\ pp_pc' = "retornado"
    /\ UNCHANGED <<pp_banco, pp_layout, pp_argv, pp_metadatos, pp_saldo_inicial,
                   pp_lineas, pp_grupos, pp_idx, pp_bloque_actual, pp_transacciones,
                   pp_bloques>>
    /\ UNCHANGED <<varsBalance, varsPipeline, varsCorridas, varsPeriodo, varsCruzada, varsProcesar, varsNormalizar, varsSaldoPromedio, varsMetadatos, varsCSV, varsAgrupar, varsResumen, varsMetodoPago>>

\* inbursa_parser.parsear_transacciones(text_input, saldo_inicial), up to the
\* loop of funcion_extraer_todas_transacciones
normalizar_entrada(text_input) ==
    Unir([i \in 1..Len(text_input) |-> TextoLinea(text_input[i])], <<"\n">>)
InbursaPreparar ==
    /\ pp_pc = "entrada" /\ pp_banco = "inbursa"
    /\ LET texto_procesado ==
               funcion_normalizar_texto_inbursa(normalizar_entrada(pp_lineas))
           seccion == lineas_seccion_inbursa(texto_procesado)
       IN  /\ pp_grupos' = IF seccion = Ninguna THEN <<>> ELSE seccion[1]
           /\ pp_pc' = IF seccion = Ninguna THEN "retornado" ELSE "bucle"
    /\ pp_metadatos' = IF pp_saldo_inicial # <<>>
                       THEN ("saldo_inicial" :> pp_saldo_inicial[1]) @@ pp_metadatos
                       ELSE pp_metadatos
    /\ pp_idx' = 1
    /\ UNCHANGED <<pp_banco, pp_layout, pp_argv, pp_saldo_inicial, pp_lineas,
                   pp_bloque_actual, pp_transacciones, pp_bloques>>
    /\ UNCHANGED <<varsBalance, varsPipeline, varsCorridas, varsPeriodo, varsCruzada, varsProcesar, varsNormalizar, varsSaldoPromedio, varsMetadatos, varsCSV, varsAgrupar, varsResumen, varsMetodoPago>>

\* the block a list of lines of text is, as lines of lexemes
BloqueDe(lineas) == [i \in 1..Len(lineas) |-> SplitPor(lineas[i], " ")]

\* one turn of the loop of inbursa_parser.funcion_extraer_todas_transacciones
InbursaLinea ==
    /\ pp_pc = "bucle" /\ pp_banco = "inbursa"
    /\ pp_idx <= Len(pp_grupos)
    /\ LET linea == pp_grupos[pp_idx]
       IN  IF patron_inicio_tx(linea)
           THEN /\ IF pp_bloque_actual # <<>>
                   THEN Emitir(funcion_procesar_bloque_transaccion(
                                   pp_bloque_actual, pp_metadatos,
                                   Get(pp_metadatos, K_ANIO_AUX, <<"2", "0", "2", "5">>),
                                   pp_transacciones),
                               BloqueDe(pp_bloque_actual))
                   ELSE UNCHANGED <<pp_transacciones, pp_bloques>>
                /\ pp_bloque_actual' = <<linea>>
           ELSE /\ pp_bloque_actual' = IF pp_bloque_actual # <<>>
                                       THEN Append(pp_bloque_actual, linea)
                                       ELSE pp_bloque_actual
                /\ UNCHANGED <<pp_transacciones, pp_bloques>>
    /\ pp_idx' = pp_idx + 1
    /\ UNCHANGED <<pp_pc, pp_banco, pp_layout, pp_argv, pp_metadatos, pp_saldo_inicial,
                   pp_lineas, pp_grupos>>
    /\ UNCHANGED <<varsBalance, varsPipeline, varsCorridas, varsPeriodo, varsCruzada, varsProcesar, varsNormalizar, varsSaldoPromedio, varsMetadatos, varsCSV, varsAgrupar, varsResumen, varsMetodoPago>>

\* after the loop: the last block, and return transacciones
InbursaUltimoBloque ==
    /\ pp_pc = "bucle" /\ pp_banco = "inbursa"
    /\ pp_idx > Len(pp_grupos)
    /\ IF pp_bloque_actual # <<>>
       THEN Emitir(funcion_procesar_bloque_transaccion(
                       pp_bloque_actual, pp_metadatos,
                       Get(pp_metadatos, K_ANIO_AUX, <<"2", "0", "2", "5">>), pp_transacciones),
                   BloqueDe(pp_bloque_actual))
       ELSE UNCHANGED <<pp_transacciones, pp_bloques>>
    /\ pp_pc' = "retornado"
    /\ UNCHANGED <<pp_banco, pp_layout, pp_argv, pp_metadatos, pp_saldo_inicial,
                   pp_lineas, pp_grupos, pp_idx, pp_bloque_actual>>
    /\ UNCHANGED <<varsBalance, varsPipeline, varsCorridas, varsPeriodo, varsCruzada, varsProcesar, varsNormalizar, varsSaldoPromedio, varsMetadatos, varsCSV, varsAgrupar, varsResumen, varsMetodoPago>>

NextParser ==
    \/ BBVAAgrupar \/ BBVAParsear
    \/ BanamexAgrupar \/ BanamexProcesar
    \/ Retornar
    \/ InbursaPreparar \/ InbursaLinea \/ InbursaUltimoBloque

SpecParser == InitParser /\ [][NextParser]_vars

-----------------------------------------------------------------------------
(* Claims about the transactions the parsers emit                           *)

\* the emitted transactions, by position
Emitidas == 1..Len(pp_transacciones)

\* C3: every transaction emitted by any of the three parsers is classified
\* Ingreso or Egreso and has an amount strictly greater than 0
C3_MontoPositivo ==
    \A k \in Emitidas :
        /\ pp_transacciones[k][K_CLASIFICACION] \in {"Ingreso", "Egreso"}
        /\ pp_transacciones[k][K_MONTO] > 0

\* C4: when the statement's own account number was extracted, an Egreso has
\* it as origin and not as destination, an Ingreso has it as destination and
\* not as origin
C4_CuentaPropiaEnSuLado ==
    LET propia == Get(pp_metadatos, K_NUMERO_CUENTA, <<>>)
    IN  propia # <<>> =>
            \A k \in Emitidas :
                LET tx == pp_transacciones[k]
                IN  /\ tx[K_CLASIFICACION] = "Egreso" =>
                           tx[K_ORIGEN] = propia /\ tx[K_DESTINO] # propia
                    /\ tx[K_CLASIFICACION] = "Ingreso" =>
                           tx[K_DESTINO] = propia /\ tx[K_ORIGEN] # propia

\* a currency-formatted number: digits with a two-decimal fraction
TieneMoneda(t) ==
    \E i \in 1..(Len(t) - 3) :
        /\ t[i] \in Digitos
        /\ t[i + 1] = "."
        /\ t[i + 2] \in Digitos
        /\ t[i + 3] \in Digitos
BloqueConMoneda(bloque) ==
    \E i \in 1..Len(bloque) : \E j \in 1..Len(bloque[i]) : TieneMoneda(bloque[i][j])

\* C5: a block with no currency-formatted number anywhere in its lines is
\* not in the output list of any parser
C5_SinMonedaNoSeEmite ==
    \A k \in Emitidas : BloqueConMoneda(pp_bloques[k])

\* the year of the statement's period, as the metadata of BBVA and Banamex
\* carry it (DDMMMAAAA_DDMMMAAAA)
AnioDelPeriodo == SubSeq(pp_metadatos[K_PERIODO], 6, 9)

\* C9: in the BBVA and Banamex runs, the year of every emitted date (the
\* statement writes its dates without a year) is the year of the period
C9_AnioDelPeriodo ==
    pp_banco \in {"bbva", "banamex"} =>
        \A k \in Emitidas :
            SubSeq(pp_transacciones[k][K_FECHA], 7, 10) = AnioDelPeriodo

-----------------------------------------------------------------------------
(* SpecInbursaOCR: the run of the Inbursa parser SpecParser has, on texts   *)
(* in which the OCR put the month of a date on one line and its day on the  *)
(* next.                                                                    *)

MaxLineasOCR == 3

LINEA_MES == <<<<"A", "B", "R", ".">>>>
LINEA_DIA == <<<<"0", "1">>>>
FECHA_REUNIDA == <<"0", "1", " ", "A", "B", "R", ".">>

LineasOCR == {
    LINEA_MES,
    LINEA_DIA,
    <<<<"D", "E", "P", "O", "S", "I", "T", "O">>, <<"S", "P", "E", "I">>, <<"5", "0", "0", ".", "0", "0">>, <<"1", ",", "5", "0", "0", ".", "0", "0">>>>,
    <<<<"0", "2">>, <<"A", "B", "R">>, <<"C", "O", "M", "I", "S", "I", "O", "N">>, <<"1", "0", ".", "0", "0">>, <<"1", ",", "4", "9", "0", ".", "0", "0">>>>,
    <<<<"P", "A", "G", "O">>, <<"D", "E", "L">>>>,
    <<<<"R", "E", "F">>, <<"1", "2">>>>}

InitInbursaOCR ==
    /\ BalanceEnReposo /\ PipelineEnReposo /\ CorridasEnReposo /\ PeriodoEnReposo /\ CruzadaEnReposo /\ ProcesarEnReposo /\ NormalizarEnReposo /\ SaldoPromedioEnReposo /\ MetadatosEnReposo /\ CSVEnReposo /\ AgruparEnReposo /\ ResumenEnReposo /\ MetodoPagoEnReposo
    /\ pp_pc = "entrada"
    /\ pp_banco = "inbursa"
    /\ pp_layout = ""
    /\ pp_argv = <<<<"m", "a", "i", "n", "_", "e", "x", "t", "r", "a", "c", "t", "o", "r", ".", "p", "y">>>>
    /\ \E anio \in AniosInbursa :
          pp_metadatos = (K_NUMERO_CUENTA :> CUENTA_PROPIA) @@ (K_ANIO_AUX :> anio)
                         @@ (K_PERIODO :> <<"P", "E", "R", "I", "O", "D", "O", "_", "N", "O", "_", "D", "E", "F", "I", "N", "I", "D", "O">>)
    /\ pp_saldo_inicial \in SaldosIniciales
    /\ \E s \in SecuenciasHasta(LineasOCR, MaxLineasOCR) :
          pp_lineas = <<EncabezadoInbursa>> \o s
    /\ pp_grupos = <<>>
    /\ pp_idx = 0
    /\ pp_bloque_actual = <<>>
    /\ pp_transacciones = <<>>
    /\ pp_bloques = <<>>

NextInbursaOCR == InbursaPreparar \/ InbursaLinea \/ InbursaUltimoBloque

SpecInbursaOCR == InitInbursaOCR /\ [][NextInbursaOCR]_vars

\* the text the parser was given has a line "ABR." followed by a line "01"
FechaPartida ==
    \E k \in 1..(Len(pp_lineas) - 1) :
        pp_lineas[k] = LINEA_MES /\ pp_lineas[k + 1] = LINEA_DIA

\* C10: when the text has a line "ABR." followed by a line "01", the
\* normalised text has the line "01 ABR.", the transaction-start pattern
\* matches that line, and the loop starts a block with it when it reaches it.
C10_FechaPartidaReunida ==
    (pp_pc \in {"bucle", "retornado"} /\ FechaPartida)
        => /\ \E j \in 1..Len(pp_grupos) : pp_grupos[j] = FECHA_REUNIDA
           /\ \A j \in 1..Len(pp_grupos) :
                  pp_grupos[j] = FECHA_REUNIDA
                      => /\ patron_inicio_tx(pp_grupos[j])
                         /\ (pp_pc = "bucle" /\ pp_idx = j + 1)
                                => pp_bloque_actual = <<FECHA_REUNIDA>>

\* the loop has just started a block with the rejoined date
C10_Witness ==
    /\ FechaPartida
    /\ pp_pc = "bucle"
    /\ pp_idx > 1
    /\ pp_grupos[pp_idx - 1] = FECHA_REUNIDA
    /\ pp_bloque_actual = <<FECHA_REUNIDA>>

-----------------------------------------------------------------------------
(* main_extractor.py: bank detection, parser dispatch and procesar_pdf.     *)
(* A document is the pair of page lists the two text extractions return;    *)
(* what procesar_pdf does with it is recorded as the parser key it detects, *)
(* the calls it makes, in order, and whether an exception leaves it.        *)

\* self.parsers
parsers == {"banamex_empresa", "bbva_empresa", "inbursa_empresa"}

\* the modules of self.parsers that define parsear_datos_generales and
\* parsear_transacciones: inbursa_parser alone (bbva_parser defines
\* funcion_parsear_bbva_empresa, banamex_empresa_parser defines
\* funcion_parsear_datos_generales and funcion_parsear_transacciones)
tiene_interfaz(parser_key) == parser_key = "inbursa_empresa"

\* BankStatementExtractor._detectar_banco_y_producto(paginas_texto)
detectar_banco_y_producto(paginas_texto) ==
    LET texto_lower == Lower(Aplanar(paginas_texto))
    IN  IF paginas_texto = <<>> THEN "desconocido"
        ELSE IF Contiene(texto_lower, <<"b", "b", "v", "a">>) THEN "bbva_empresa"
        ELSE IF Contiene(texto_lower, <<"i", "n", "b", "u", "r", "s", "a">>) THEN "inbursa_empresa"
        ELSE IF Contiene(texto_lower, <<"b", "a", "n", "a", "m", "e", "x">>)
        THEN IF Contiene(texto_lower, <<"i", "n", "m", "o", "v", "i", "t", "u", "r">>) THEN "banamex_empresa"
             ELSE IF Contiene(texto_lower, <<"c", "o", "s", "t", "c", "o", " ", "b", "a", "n", "a", "m", "e", "x">>) THEN "desconocido"
             ELSE IF "banamex_empresa" \in parsers THEN "banamex_empresa"
             ELSE "desconocido"
        ELSE "desconocido"

\* BankStatementExtractor._parsear_texto(paginas_texto, parser_key): the
\* calls it makes and whether it returns a result ("resultado") or raises
\* ("excepcion"): NotImplementedError for a key outside self.parsers,
\* AttributeError for a module without the interface
parsear_texto(parser_key) ==
    IF parser_key \in parsers /\ tiene_interfaz(parser_key)
    THEN [llamadas |-> <<"_parsear_texto", "parsear_datos_generales",
                         "parsear_transacciones">>,
          termina |-> "resultado"]
    ELSE [llamadas |-> <<"_parsear_texto">>, termina |-> "excepcion"]

\* procesar_pdf never skips the return that follows an unknown bank
banco_no_reconocido_nunca(parser_key) == FALSE

\* the test of procesar_pdf that ends it for an unknown bank
banco_no_reconocido(parser_key) == parser_key = "desconocido"

\* BankStatementExtractor.procesar_pdf(pdf_path, output_dir), the two
\* arguments being the page lists the two extractions return for pdf_path
procesar_pdf(paginas_nativas, paginas_ocr) ==
    LET parser_key == detectar_banco_y_producto(
                          IF paginas_nativas # <<>> THEN paginas_nativas
                          ELSE paginas_ocr)
        nativo == parsear_texto(parser_key)
        ocr == parsear_texto(parser_key)
        hecho(llamadas) == [paginas_nativas |-> paginas_nativas,
                            paginas_ocr |-> paginas_ocr,
                            parser_key |-> parser_key,
                            llamadas |-> llamadas,
                            excepcion |-> FALSE]
        \* steps 5 to 7, once resultado_final holds a result
        validar_y_guardar ==
            <<"validar_balance">>
            \o nativo.llamadas \o ocr.llamadas
            \o (IF nativo.termina = "resultado" /\ ocr.termina = "resultado"
                THEN <<"validar_cruzada">> ELSE <<>>)
            \o <<"guardar_resultados">>
    IN  IF banco_no_reconocido(parser_key) THEN hecho(<<>>)
        ELSE IF nativo.termina = "resultado"
        THEN hecho(nativo.llamadas \o validar_y_guardar)
        ELSE IF ocr.termina = "resultado"
        THEN hecho(nativo.llamadas \o ocr.llamadas \o validar_y_guardar)
        ELSE hecho(nativo.llamadas \o ocr.llamadas)

-----------------------------------------------------------------------------
(* SpecPipeline: main() over the PDF files of the input directory.  The     *)
(* text of a file is a heading page followed by a page of movements.        *)

MaxPdfs == 2
Menciones == 10

RFC_BBVA == <<"B", "B", "A", "8", "3", "0", "8", "3", "1", "L", "J", "2">>
RFC_INBURSA == <<"B", "I", "I", "9", "3", "1", "0", "0", "4", "P", "6", "1">>
RFC_BANAMEX == <<"B", "N", "M", "8", "4", "0", "5", "1", "5", "V", "B", "1">>
Bancos == {"bbva_empresa", "inbursa_empresa", "banamex_empresa"}
rfc_de == ("bbva_empresa" :> RFC_BBVA) @@ ("inbursa_empresa" :> RFC_INBURSA)
          @@ ("banamex_empresa" :> RFC_BANAMEX)
marca_de == ("bbva_empresa" :> <<"B", "B", "V", "A">>) @@ ("inbursa_empresa" :> <<"I", "N", "B", "U", "R", "S", "A">>)
            @@ ("banamex_empresa" :> <<"B", "A", "N", "A", "M", "E", "X">>)

RECURSIVE Repetir(_, _)
Repetir(s, n) == IF n = 0 THEN <<>> ELSE s \o Repetir(s, n - 1)

\* heading pages: no bank, a bank's tax ID alone, its name and its tax ID
Encabezados ==
    {<<"E", "S", "T", "A", "D", "O", " ", "D", "E", " ", "C", "U", "E", "N", "T", "A">> \o <<"\n">>}
    \cup {<<"R", "F", "C", " ">> \o rfc_de[b] \o <<"\n">> : b \in Bancos}
    \cup {<<"B", "A", "N", "C", "O", " ">> \o marca_de[b] \o <<" ", "R", "F", "C", " ">> \o rfc_de[b] \o <<"\n">> : b \in Bancos}

\* pages of movements: transfers that name a bank, a card, a company
PaginasMovimientos ==
    {<<>>, <<"T", "A", "R", "J", "E", "T", "A", " ", "C", "O", "S", "T", "C", "O", " ", "B", "A", "N", "A", "M", "E", "X">> \o <<"\n">>, <<"I", "N", "M", "O", "V", "I", "T", "U", "R", " ", "S", "A", " ", "B", "A", "N", "A", "M", "E", "X">> \o <<"\n">>}
    \cup {Repetir(<<"S", "P", "E", "I", " ", "E", "N", "V", "I", "A", "D", "O", " ">> \o marca_de[b] \o <<" ", "1", "0", "0", ".", "0", "0">> \o <<"\n">>, Menciones) :
              b \in Bancos}

Paginas == {<<e, m>> : e \in Encabezados, m \in PaginasMovimientos}

\* what the two extractions return for a file: both its text, or only the
\* OCR its text (a scanned file), or neither of them anything
Documentos ==
    {<<p, p>> : p \in Paginas} \cup {<<<<>>, p>> : p \in Paginas} \cup {<<<<>>, <<>>>>}

InitPipeline ==
    /\ BalanceEnReposo /\ ParserEnReposo /\ CorridasEnReposo /\ PeriodoEnReposo /\ CruzadaEnReposo /\ ProcesarEnReposo /\ NormalizarEnReposo /\ SaldoPromedioEnReposo /\ MetadatosEnReposo /\ CSVEnReposo /\ AgruparEnReposo /\ ResumenEnReposo /\ MetodoPagoEnReposo
    /\ pl_pc = "inicio"
    /\ pl_restantes = 0
    /\ pl_ultimo = <<>>

\* main(), up to its loop: the PDF files found in the input directory
Main ==
    /\ pl_pc = "inicio"
    /\ \E n \in 0..MaxPdfs :
          /\ pl_restantes' = n
          /\ pl_pc' = IF n = 0 THEN "retornado" ELSE "procesando"
    /\ UNCHANGED <<pl_ultimo, varsBalance, varsParser, varsCorridas, varsPeriodo, varsCruzada, varsProcesar, varsNormalizar, varsSaldoPromedio, varsMetadatos, varsCSV, varsAgrupar, varsResumen, varsMetodoPago>>

\* one turn of the loop of main(): procesar_pdf on the next file
ProcesarPdf ==
    /\ pl_pc = "procesando"
    /\ pl_restantes > 0
    /\ \E doc \in Documentos : pl_ultimo' = <<procesar_pdf(doc[1], doc[2])>>
    /\ pl_restantes' = pl_restantes - 1
    /\ UNCHANGED <<pl_pc, varsBalance, varsParser, varsCorridas, varsPeriodo, varsCruzada, varsProcesar, varsNormalizar, varsSaldoPromedio, varsMetadatos, varsCSV, varsAgrupar, varsResumen, varsMetodoPago>>

\* the end of the loop
Completado ==
    /\ pl_pc = "procesando"
    /\ pl_restantes = 0
    /\ pl_pc' = "retornado"
    /\ UNCHANGED <<pl_restantes, pl_ultimo, varsBalance, varsParser, varsCorridas, varsPeriodo, varsCruzada, varsProcesar, varsNormalizar, varsSaldoPromedio, varsMetadatos, varsCSV, varsAgrupar, varsResumen, varsMetodoPago>>

NextPipeline == Main \/ ProcesarPdf \/ Completado

SpecPipeline == InitPipeline /\ [][NextPipeline]_vars

\* the text bank detection read in the last file, and how often w is in it
TextoDetectado ==
    Aplanar(IF pl_ultimo[1].paginas_nativas # <<>> THEN pl_ultimo[1].paginas_nativas
            ELSE pl_ultimo[1].paginas_ocr)
Ocurrencias(s, w) == Cardinality({i \in 1..(Len(s) - Len(w) + 1) : EnPos(s, i, w)})

\* C6: for every ordered pair of supported banks A and B, a text that has
\* the tax ID of A once and the brand name of B ten times is identified as
\* a statement of A.
C6_RFCDecide ==
    pl_ultimo # <<>>
        => \A a \in Bancos : \A b \in Bancos \ {a} :
               (/\ Ocurrencias(TextoDetectado, rfc_de[a]) = 1
                /\ Ocurrencias(TextoDetectado, marca_de[b]) = Menciones)
                   => pl_ultimo[1].parser_key = a

\* C7: when bank identification returns "desconocido" for a file,
\* procesar_pdf has ended for it without a call of a parser, of a validator
\* or of guardar_resultados, and without an exception.
C7_DesconocidoTermina ==
    (pl_ultimo # <<>> /\ pl_ultimo[1].parser_key = "desconocido")
        => /\ pl_ultimo[1].llamadas = <<>>
           /\ ~pl_ultimo[1].excepcion

\* a file with text in which no bank is recognised has been processed, and
\* the loop of main() goes on to the next file
C7_Witness ==
    /\ pl_ultimo # <<>>
    /\ pl_ultimo[1].parser_key = "desconocido"
    /\ pl_ultimo[1].paginas_nativas # <<>>
    /\ Contiene(TextoDetectado, <<"C", "O", "S", "T", "C", "O", " ", "B", "A", "N", "A", "M", "E", "X">>)
    /\ pl_ultimo[1].llamadas = <<>>
    /\ pl_pc = "procesando"
    /\ pl_restantes > 0

-----------------------------------------------------------------------------
(* The three extractions as functions of their whole input: the loops that  *)
(* SpecParser runs turn by turn, run to their end.  sys.argv, which         *)
(* funcion_extraer_fecha_normalizada reads, is an argument.                 *)

\* bbva_parser.funcion_extraer_todas_transacciones(texto, metadatos, layout)
RECURSIVE ParsearGruposBBVA(_, _, _, _)
ParsearGruposBBVA(grupos, metadatos, layout, argv) ==
    IF grupos = <<>> THEN <<>>
    ELSE funcion_parsear_transaccion_individual(grupos[1], metadatos, layout, argv)
         \o ParsearGruposBBVA(Tail(grupos), metadatos, layout, argv)
bbva_extraer_todas_transacciones(lineas, metadatos, layout, argv) ==
    ParsearGruposBBVA(grupos_bbva(lineas), metadatos, layout, argv)

\* banamex_empresa_parser.funcion_extraer_todas_transacciones(texto, metadatos)
RECURSIVE ProcesarGruposBanamex(_, _, _, _)
ProcesarGruposBanamex(grupos, anio, cuenta_propia, argv) ==
    IF grupos = <<>> THEN <<>>
    ELSE funcion_procesar_grupo_transaccion(grupos[1], anio, cuenta_propia, argv)
         \o ProcesarGruposBanamex(Tail(grupos), anio, cuenta_propia, argv)
banamex_extraer_todas_transacciones(lineas, metadatos, argv) ==
    ProcesarGruposBanamex(grupos_banamex(lineas), anio_banamex(metadatos),
                          Get(metadatos, K_NUMERO_CUENTA, <<>>), argv)

\* inbursa_parser.funcion_extraer_todas_transacciones(texto, metadatos)
cerrar_bloque(bloque_actual, metadatos, transacciones) ==
    IF bloque_actual # <<>>
    THEN transacciones
         \o funcion_procesar_bloque_transaccion(
                bloque_actual, metadatos,
                Get(metadatos, K_ANIO_AUX, <<"2", "0", "2", "5">>), transacciones)
    ELSE transacciones
RECURSIVE RecorrerLineasInbursa(_, _, _, _)
RecorrerLineasInbursa(lineas, bloque_actual, metadatos, transacciones) ==
    IF lineas = <<>> THEN cerrar_bloque(bloque_actual, metadatos, transacciones)
    ELSE IF patron_inicio_tx(lineas[1])
    THEN RecorrerLineasInbursa(Tail(lineas), <<lineas[1]>>, metadatos,
                               cerrar_bloque(bloque_actual, metadatos, transacciones))
    ELSE RecorrerLineasInbursa(Tail(lineas),
                               IF bloque_actual # <<>>
                               THEN Append(bloque_actual, lineas[1])
                               ELSE bloque_actual,
                               metadatos, transacciones)
inbursa_extraer_todas_transacciones(texto, metadatos) ==
    LET seccion == lineas_seccion_inbursa(texto)
    IN  IF seccion = Ninguna THEN <<>>
        ELSE RecorrerLineasInbursa(seccion[1], <<>>, metadatos, <<>>)

\* inbursa_parser.parsear_transacciones(text_input, saldo_inicial), metadatos
\* being what funcion_extraer_metadatos_completos reads from the text
parsear_transacciones(text_input, saldo_inicial, metadatos) ==
    inbursa_extraer_todas_transacciones(
        funcion_normalizar_texto_inbursa(normalizar_entrada(text_input)),
        IF saldo_inicial # <<>>
        THEN ("saldo_inicial" :> saldo_inicial[1]) @@ metadatos
        ELSE metadatos)

\* the transactions a bank's parser extracts in a process started with argv
extraer_transacciones(banco, lineas, metadatos, layout, argv) ==
    CASE banco = "bbva" -> bbva_extraer_todas_transacciones(lineas, metadatos, layout, argv)
      [] banco = "banamex" -> banamex_extraer_todas_transacciones(lineas, metadatos, argv)
      [] banco = "inbursa" -> parsear_transacciones(lineas, <<>>, metadatos)

-----------------------------------------------------------------------------
(* SpecDosCorridas: the same text is given to a bank's parser in            *)
(* NumCorridas processes, each started with a command line of its own.      *)

MaxLineasCorrida == 2
NumCorridas == 2

InitDosCorridas ==
    /\ BalanceEnReposo /\ ParserEnReposo /\ PipelineEnReposo /\ PeriodoEnReposo /\ CruzadaEnReposo /\ ProcesarEnReposo /\ NormalizarEnReposo /\ SaldoPromedioEnReposo /\ MetadatosEnReposo /\ CSVEnReposo /\ AgruparEnReposo /\ ResumenEnReposo /\ MetodoPagoEnReposo
    /\ dc_banco \in {"bbva", "banamex", "inbursa"}
    /\ \/ /\ dc_banco = "bbva"
          /\ dc_layout \in Layouts
          /\ \E cuenta \in CuentasEstado, periodo \in PeriodosBBVA :
                dc_metadatos = (K_NUMERO_CUENTA :> cuenta) @@ (K_PERIODO :> periodo)
          /\ dc_lineas \in SecuenciasHasta(LineasBBVA, MaxLineasCorrida)
       \/ /\ dc_banco = "banamex"
          /\ dc_layout = ""
          /\ \E cuenta \in CuentasEstado, periodo \in PeriodosBanamex :
                dc_metadatos = (K_NUMERO_CUENTA :> cuenta) @@ (K_PERIODO :> periodo)
          /\ dc_lineas \in SecuenciasHasta(LineasBanamex, MaxLineasCorrida)
       \/ /\ dc_banco = "inbursa"
          /\ dc_layout = ""
          /\ \E cuenta \in CuentasEstado, anio \in AniosInbursa :
                dc_metadatos = (K_NUMERO_CUENTA :> cuenta) @@ (K_ANIO_AUX :> anio)
                               @@ (K_PERIODO :> <<"P", "E", "R", "I", "O", "D", "O", "_", "N", "O", "_", "D", "E", "F", "I", "N", "I", "D", "O">>)
          /\ \E s \in SecuenciasHasta(LineasInbursa, MaxLineasCorrida) :
                dc_lineas = <<EncabezadoInbursa>> \o s
    /\ dc_argv = <<>>
    /\ dc_salidas = <<>>

\* one process runs the extraction on the text and returns its transactions
Corrida ==
    /\ Len(dc_salidas) < NumCorridas
    /\ \E argv \in Argvs :
          /\ dc_argv' = Append(dc_argv, argv)
          /\ dc_salidas' = Append(dc_salidas,
                                  extraer_transacciones(dc_banco, dc_lineas,
                                                        dc_metadatos, dc_layout, argv))
    /\ UNCHANGED <<dc_banco, dc_layout, dc_metadatos, dc_lineas>>
    /\ UNCHANGED <<varsBalance, varsParser, varsPipeline, varsPeriodo, varsCruzada, varsProcesar, varsNormalizar, varsSaldoPromedio, varsMetadatos, varsCSV, varsAgrupar, varsResumen, varsMetodoPago>>

NextDosCorridas == Corrida

SpecDosCorridas == InitDosCorridas /\ [][NextDosCorridas]_vars

\* C8: two runs on the same text return the same transactions, whatever
\* the command line of each process.
C8_MismaSalida ==
    \A i \in 1..Len(dc_salidas) : \A j \in 1..Len(dc_salidas) :
        dc_salidas[i] = dc_salidas[j]

-----------------------------------------------------------------------------
(* The statement period: utils/field_extractors.py (file-name form of the   *)
(* parsers' metadata), the period search of the Inbursa and Banamex         *)
(* metadata extraction, and main_extractor.py's _formatear_periodo.          *)
(* A text here is one sequence of characters whose blanks are single        *)
(* spaces, so "\s+" of a pattern is one space.                              *)

DigitChar(n) == CHOOSE c \in Digitos : DigitVal(c) = n
DosDigitos(n) == <<DigitChar(n \div 10), DigitChar(n % 10)>>    \* '%02d' % n

\* \d{n} at position i
EsDigitos(s, i, n) ==
    i >= 1 /\ i + n - 1 <= Len(s) /\ TodosEn(s, i, i + n - 1, Digitos)
\* [A-Za-z]{n} at position i
EsLetras(s, i, n) ==
    i >= 1 /\ i + n - 1 <= Len(s) /\ TodosEn(s, i, i + n - 1, Letras)
\* \w{n} at position i
EsPalabra(s, i, n) ==
    i >= 1 /\ i + n - 1 <= Len(s) /\ TodosEn(s, i, i + n - 1, CharsPalabra)
\* s[i-1 : i-1+n], the slice clipped to the text
Trozo(s, i, n) == SubSeq(s, Max(i, 1), Min(i + n - 1, Len(s)))

\* (\d{2})/(\d{2})/(\d{4}) at position i
patron_fecha_numerica(s, i) ==
    /\ EsDigitos(s, i, 2) /\ EnPos(s, i + 2, <<"/">>)
    /\ EsDigitos(s, i + 3, 2) /\ EnPos(s, i + 5, <<"/">>)
    /\ EsDigitos(s, i + 6, 4)

\* re.findall(r'(\d{2})/(\d{2})/(\d{4})', periodo_texto): the first two
\* matches (the code reads no other), as positions
fechas_numericas(s) ==
    LET ps  == {i \in 1..Len(s) : patron_fecha_numerica(s, i)}
        p1  == MinDe(ps)
        ps2 == {i \in ps : i >= p1 + 10}
    IN  IF ps = {} THEN <<>>
        ELSE IF ps2 = {} THEN <<p1>>
        ELSE <<p1, MinDe(ps2)>>

\* the dict meses of funcion_formatear_periodo_archivo, keys '01'..'12'
meses_archivo ==
    <<<<"E", "N", "E">>, <<"F", "E", "B">>, <<"M", "A", "R">>, <<"A", "B", "R">>, <<"M", "A", "Y">>, <<"J", "U", "N">>,
      <<"J", "U", "L">>, <<"A", "G", "O">>, <<"S", "E", "P">>, <<"O", "C", "T">>, <<"N", "O", "V">>, <<"D", "I", "C">>>>
meses_archivo_get(mes) ==
    IF DigitsToInt(mes) \in 1..12 THEN meses_archivo[DigitsToInt(mes)] ELSE <<"M", "E", "S">>

PERIODO_NO_DEFINIDO == <<"P", "E", "R", "I", "O", "D", "O", "_", "N", "O", "_", "D", "E", "F", "I", "N", "I", "D", "O">>

funcion_formatear_periodo_archivo(periodo_texto) ==
    IF periodo_texto = <<>> THEN PERIODO_NO_DEFINIDO
    ELSE LET fechas == fechas_numericas(periodo_texto)
             parte(p) == Trozo(periodo_texto, p, 2)
                         \o meses_archivo_get(Trozo(periodo_texto, p + 3, 2))
                         \o Trozo(periodo_texto, p + 6, 4)
         IN  IF Len(fechas) >= 2
             THEN parte(fechas[1]) \o <<"_">> \o parte(fechas[2])
             ELSE PERIODO_NO_DEFINIDO

\* \d{1,2}\s+[A-Za-z]{3}\.?\s+\d{4} at position i: whether it matches, its
\* three groups and the position after it
fecha_textual(s, i) ==
    LET nd == IF EsDigitos(s, i, 2) /\ EnPos(s, i + 2, <<" ">>) THEN 2
              ELSE IF EsDigitos(s, i, 1) /\ EnPos(s, i + 1, <<" ">>) THEN 1
              ELSE 0
        pm == i + nd + 1
        np == IF EnPos(s, pm + 3, <<".">>) THEN 1 ELSE 0
        py == pm + 3 + np + 1
    IN  [ok  |-> /\ nd > 0 /\ EsLetras(s, pm, 3)
                 /\ EnPos(s, pm + 3 + np, <<" ">>) /\ EsDigitos(s, py, 4),
         dia |-> Trozo(s, i, nd),
         mes |-> Trozo(s, pm, 3 + np),
         anio |-> Trozo(s, py, 4),
         fin |-> py + 4]

\* inbursa_parser.py line 134 at position i (re.IGNORECASE)
patron_periodo_inbursa(s, i) ==
    LET f1 == fecha_textual(s, i + 4)
    IN  /\ EnPosSinCaso(s, i, <<"D", "E", "L", " ">>)
        /\ f1.ok
        /\ EnPosSinCaso(s, f1.fin, <<" ", "A", "L", " ">>)
        /\ fecha_textual(s, f1.fin + 4).ok

\* re.findall(r'(\d{1,2}\s+[A-Za-z]{3}\.?\s+\d{4})', ...) from position desde
RECURSIVE fechas_textuales(_, _)
fechas_textuales(s, desde) ==
    LET ps == {i \in desde..Len(s) : fecha_textual(s, i).ok}
    IN  IF ps = {} THEN <<>>
        ELSE LET p == MinDe(ps)
                 f == fecha_textual(s, p)
             IN  <<SubSeq(s, p, f.fin - 1)>> \o fechas_textuales(s, f.fin)

\* datos['periodo'] and datos['_anio_aux'] of the Inbursa metadata
\* extraction, lines 134-147 (<<>> for a missing '_anio_aux')
inbursa_periodo(texto) ==
    LET ps == {i \in 1..Len(texto) : patron_periodo_inbursa(texto, i)}
    IN  IF ps # {}
        THEN LET i  == MinDe(ps)
                 f1 == fecha_textual(texto, i + 4)
                 f2 == fecha_textual(texto, f1.fin + 4)
                 sin_punto(m) == SelectSeq(m, LAMBDA c : c # ".")
             IN  [periodo |-> Upper(<<"D", "E", "L", " ">> \o f1.dia \o <<" ">> \o sin_punto(f1.mes)
                                    \o <<" ">> \o f1.anio \o <<" ", "A", "L", " ">> \o f2.dia
                                    \o <<" ">> \o sin_punto(f2.mes) \o <<" ">> \o f2.anio),
                  anio_aux |-> f1.anio]
        ELSE LET fechas == fechas_textuales(SubSeq(texto, 1, Min(Len(texto), 1500)), 1)
             IN  [periodo |-> IF Len(fechas) >= 2
                              THEN Upper(<<"D", "E", "L", " ">> \o fechas[1] \o <<" ", "A", "L", " ">>
                                         \o fechas[Len(fechas)])
                              ELSE <<>>,
                  anio_aux |-> <<>>]

\* "Periodo del estado de cuenta" of the dict the Inbursa parser returns
inbursa_periodo_archivo(texto) ==
    funcion_formatear_periodo_archivo(inbursa_periodo(texto).periodo)

\* the dict meses of banamex_empresa_parser.py line 179
meses_banamex_get(m_txt) ==
    IF \E k \in 1..12 : meses_archivo[k] = m_txt
    THEN LET k == CHOOSE k \in 1..12 : meses_archivo[k] = m_txt
         IN  DosDigitos(k)
    ELSE <<"0", "0">>

\* dd[/. ]MON[/. ]yyyy at position q (re.IGNORECASE)
fecha_banamex(s, q) ==
    /\ EsDigitos(s, q, 2) /\ q + 2 <= Len(s) /\ s[q + 2] \in {"/", ".", " "}
    /\ EsLetras(s, q + 3, 3) /\ q + 6 <= Len(s) /\ s[q + 6] \in {"/", ".", " "}
    /\ EsDigitos(s, q + 7, 4)

\* the date range of banamex_empresa_parser.py line 176 at position q
rango_banamex(s, q) ==
    fecha_banamex(s, q) /\ EnPosSinCaso(s, q + 11, <<" ", "A", "L", " ">>) /\ fecha_banamex(s, q + 15)

\* DEL\s+(\d{2}\s+DE\s+[A-Z]+\s+DE\s+\d{4})\s+AL at position i (line 186): the
\* position of its last character, or 0
periodo_textual_banamex(s, i) ==
    LET e == FinCorrida(s, i + 10, Letras)
    IN  IF /\ EnPosSinCaso(s, i, <<"D", "E", "L", " ">>) /\ EsDigitos(s, i + 4, 2)
           /\ EnPosSinCaso(s, i + 6, <<" ", "D", "E", " ">>) /\ e >= i + 10
           /\ EnPosSinCaso(s, e + 1, <<" ", "D", "E", " ">>) /\ EsDigitos(s, e + 5, 4)
           /\ EnPosSinCaso(s, e + 9, <<" ", "A", "L", " ">>)
        THEN e + 11 ELSE 0

\* datos['periodo'] of the Banamex metadata extraction, lines 176-187
banamex_periodo(texto) ==
    LET claves == {i \in 1..Len(texto) : EnPosSinCaso(texto, i, <<"R", "E", "S", "U", "M", "E", "N">>)
                                         \/ EnPosSinCaso(texto, i, <<"P", "E", "R", "I", "O", "D", "O">>)}
        qs == IF claves = {} THEN {}
              ELSE {q \in (MinDe(claves) + 7)..Len(texto) : rango_banamex(texto, q)}
        ts == {i \in 1..Len(texto) : periodo_textual_banamex(texto, i) > 0}
    IN  IF qs = {}
        THEN IF ts = {} THEN <<>>
             ELSE SubSeq(texto, MinDe(ts), periodo_textual_banamex(texto, MinDe(ts)))
        ELSE LET q == MinDe(qs)
                 fecha(p) == Trozo(texto, p, 2) \o <<"/">>
                             \o meses_banamex_get(Upper(Trozo(texto, p + 3, 3)))
                             \o <<"/">> \o Trozo(texto, p + 7, 4)
             IN  <<"D", "E", "L", " ">> \o fecha(q) \o <<" ", "A", "L", " ">> \o fecha(q + 15)

banamex_periodo_archivo(texto) ==
    funcion_formatear_periodo_archivo(banamex_periodo(texto))

\* datos_raw['periodo'] of the BBVA metadata extraction, bbva_parser.py
\* lines 113-119: Periodo\s+(?:DEL\s+)?(date)\s+AL\s+(date), re.IGNORECASE
bbva_periodo(texto) ==
    LET fecha_en(p) == patron_fecha_numerica(texto, p)
        rango(p) == fecha_en(p) /\ EnPosSinCaso(texto, p + 10, <<" ", "A", "L", " ">>)
                    /\ fecha_en(p + 14)
        inicio(i) == IF EnPosSinCaso(texto, i + 8, <<"D", "E", "L", " ">>) /\ rango(i + 12)
                     THEN i + 12
                     ELSE IF rango(i + 8) THEN i + 8 ELSE 0
        ps == {i \in 1..Len(texto) :
                 EnPosSinCaso(texto, i, <<"P", "E", "R", "I", "O", "D", "O", " ">>) /\ inicio(i) > 0}
    IN  IF ps = {} THEN <<>>
        ELSE LET p == inicio(MinDe(ps))
             IN  <<"D", "E", "L", " ">> \o Trozo(texto, p, 10) \o <<" ", "A", "L", " ">> \o Trozo(texto, p + 14, 10)

bbva_periodo_archivo(texto) ==
    funcion_formatear_periodo_archivo(bbva_periodo(texto))

\* main_extractor.py: MONTH_MAP, lines 39-45, as the set of its items
MONTH_MAP ==
    { <<<<"e", "n", "e", "r", "o">>, <<"J", "A", "N">>>>, <<<<"f", "e", "b">>, <<"F", "E", "B">>>>, <<<<"m", "a", "r">>, <<"M", "A", "R">>>>,
      <<<<"a", "b", "r">>, <<"A", "P", "R">>>>, <<<<"m", "a", "y">>, <<"M", "A", "Y">>>>, <<<<"j", "u", "n">>, <<"J", "U", "N">>>>,
      <<<<"j", "u", "l">>, <<"J", "U", "L">>>>, <<<<"a", "g", "o">>, <<"A", "U", "G">>>>, <<<<"s", "e", "p">>, <<"S", "E", "P">>>>,
      <<<<"o", "c", "t">>, <<"O", "C", "T">>>>, <<<<"n", "o", "v">>, <<"N", "O", "V">>>>, <<<<"d", "i", "c">>, <<"D", "E", "C">>>>,
      <<<<"E", "N", "E", "R", "O">>, <<"J", "A", "N">>>>, <<<<"F", "E", "B">>, <<"F", "E", "B">>>>, <<<<"M", "A", "R">>, <<"M", "A", "R">>>>,
      <<<<"A", "B", "R">>, <<"A", "P", "R">>>>, <<<<"M", "A", "Y">>, <<"M", "A", "Y">>>>, <<<<"J", "U", "N">>, <<"J", "U", "N">>>>,
      <<<<"J", "U", "L">>, <<"J", "U", "L">>>>, <<<<"A", "G", "O">>, <<"A", "U", "G">>>>, <<<<"S", "E", "P">>, <<"S", "E", "P">>>>,
      <<<<"O", "C", "T">>, <<"O", "C", "T">>>>, <<<<"N", "O", "V">>, <<"N", "O", "V">>>>, <<<<"D", "I", "C">>, <<"D", "E", "C">>>>,
      <<<<"E", "N", "E">>, <<"J", "A", "N">>>> }

\* mapa.get(clave, defecto)
mapa_get(mapa, clave, defecto) ==
    IF \E it \in mapa : it[1] = clave
    THEN (CHOOSE it \in mapa : it[1] = clave)[2]
    ELSE defecto

\* the month names of the C locale (%b), upper case
meses_locale ==
    <<<<"J", "A", "N">>, <<"F", "E", "B">>, <<"M", "A", "R">>, <<"A", "P", "R">>, <<"M", "A", "Y">>, <<"J", "U", "N">>,
      <<"J", "U", "L">>, <<"A", "U", "G">>, <<"S", "E", "P">>, <<"O", "C", "T">>, <<"N", "O", "V">>, <<"D", "E", "C">>>>

es_bisiesto(a) == (a % 4 = 0 /\ a % 100 # 0) \/ a % 400 = 0
dias_del_mes(m, a) ==
    IF m = 2 THEN (IF es_bisiesto(a) THEN 29 ELSE 28)
    ELSE IF m \in {4, 6, 9, 11} THEN 30 ELSE 31

\* datetime.strptime of a day, a month number and a year: the date, or
\* ok = FALSE for the ValueError of a date that does not exist
strptime(dia, mes, anio) ==
    LET d == DigitsToInt(dia)
        a == DigitsToInt(anio)
    IN  [ok |-> mes \in 1..12 /\ a >= 1 /\ d >= 1 /\ d <= dias_del_mes(mes, a),
         dia |-> d, mes |-> mes, anio |-> a]

\* the decimal digits of n > 0
RECURSIVE Decimales(_)
Decimales(n) == IF n < 10 THEN <<DigitChar(n)>> ELSE Decimales(n \div 10) \o <<DigitChar(n % 10)>>

\* f.strftime('%d%b%Y').upper(); glibc prints the year without padding
strftime(f) == DosDigitos(f.dia) \o meses_locale[f.mes] \o Decimales(f.anio)

\* the number of the month a %b field names (0: none); %b ignores case
mes_de_locale(nombre) ==
    IF \E k \in 1..12 : meses_locale[k] = Upper(nombre)
    THEN CHOOSE k \in 1..12 : meses_locale[k] = Upper(nombre)
    ELSE 0

FECHAS_POR_DEFECTO == <<<<"F", "E", "C", "H", "A", "_", "I", "N", "I", "C", "I", "O">>, <<"F", "E", "C", "H", "A", "_", "F", "I", "N">>>>

\* the two dates of a match, or the placeholders when strptime raises
fechas_formateadas(f_inicio, f_fin) ==
    IF f_inicio.ok /\ f_fin.ok THEN <<strftime(f_inicio), strftime(f_fin)>>
    ELSE FECHAS_POR_DEFECTO

\* _formatear_periodo(periodo_str), lines 192-233
formatear_periodo(periodo_str) ==
    LET s == Strip(periodo_str)
        match1 == /\ EnPosSinCaso(s, 1, <<"D", "E", "L", " ">>) /\ patron_fecha_numerica(s, 5)
                  /\ EnPosSinCaso(s, 15, <<" ", "A", "L", " ">>) /\ patron_fecha_numerica(s, 19)
        match2 == /\ EnPosSinCaso(s, 1, <<"D", "E", "L", " ">>) /\ EsDigitos(s, 5, 2)
                  /\ EnPos(s, 7, <<" ">>) /\ EsPalabra(s, 8, 3) /\ EnPos(s, 11, <<".", " ">>)
                  /\ EsDigitos(s, 13, 4) /\ EnPosSinCaso(s, 17, <<" ", "A", "L", " ">>)
                  /\ EsDigitos(s, 21, 2) /\ EnPos(s, 23, <<" ">>) /\ EsPalabra(s, 24, 3)
                  /\ EnPos(s, 27, <<".", " ">>) /\ EsDigitos(s, 29, 4)
        match3 == /\ EnPosSinCaso(s, 1, <<"R", "E", "S", "U", "M", "E", "N", " ", "D", "E", "L", ":", " ">>) /\ EsDigitos(s, 14, 2)
                  /\ EnPos(s, 16, <<"/">>) /\ EsLetras(s, 17, 3) /\ EnPos(s, 20, <<"/">>)
                  /\ EsDigitos(s, 21, 4) /\ EnPosSinCaso(s, 25, <<" ", "A", "L", " ">>)
                  /\ EsDigitos(s, 29, 2) /\ EnPos(s, 31, <<"/">>) /\ EsLetras(s, 32, 3)
                  /\ EnPos(s, 35, <<"/">>) /\ EsDigitos(s, 36, 4)
    IN  IF s = <<>> THEN FECHAS_POR_DEFECTO
        ELSE IF match1
        THEN fechas_formateadas(
                 strptime(Trozo(s, 5, 2), DigitsToInt(Trozo(s, 8, 2)), Trozo(s, 11, 4)),
                 strptime(Trozo(s, 19, 2), DigitsToInt(Trozo(s, 22, 2)), Trozo(s, 25, 4)))
        ELSE IF match2
        THEN LET mes_inicio == mapa_get(MONTH_MAP, Lower(Trozo(s, 8, 3)), <<"J", "A", "N">>)
                 mes_fin    == mapa_get(MONTH_MAP, Lower(Trozo(s, 24, 3)), <<"D", "E", "C">>)
             IN  fechas_formateadas(
                     strptime(Trozo(s, 5, 2), mes_de_locale(mes_inicio), Trozo(s, 13, 4)),
                     strptime(Trozo(s, 21, 2), mes_de_locale(mes_fin), Trozo(s, 29, 4)))
        ELSE IF match3
        THEN LET mes_inicio == mapa_get(MONTH_MAP, Upper(Trozo(s, 17, 3)), <<"J", "A", "N">>)
                 mes_fin    == mapa_get(MONTH_MAP, Upper(Trozo(s, 32, 3)), <<"D", "E", "C">>)
             IN  fechas_formateadas(
                     strptime(Trozo(s, 14, 2), mes_de_locale(mes_inicio), Trozo(s, 21, 4)),
                     strptime(Trozo(s, 29, 2), mes_de_locale(mes_fin), Trozo(s, 36, 4)))
        ELSE FECHAS_POR_DEFECTO

-----------------------------------------------------------------------------
(* SpecPeriodo: the period line of a statement, in each of the three        *)
(* formats, is read by the bank's metadata extraction and by                *)
(* _formatear_periodo.                                                      *)

AniosPeriodo == {2024, 2025}
DiasFin == {15, 28}

\* the month as the statements of Inbursa print it: "Ene", "Abr", ...
mes_impreso(m) ==
    LET n == meses_archivo[m] IN <<n[1], LowerChar(n[2]), LowerChar(n[3])>>

\* the period line of a statement of the bank, printed from the dates
texto_periodo(f) ==
    LET a == Decimales(f.anio)
        d1 == DosDigitos(f.dia_inicio)
        d2 == DosDigitos(f.dia_fin)
    IN  CASE f.formato = "bbva" ->
               <<"D", "E", "L", " ">> \o d1 \o <<"/">> \o DosDigitos(f.mes_inicio) \o <<"/">> \o a
               \o <<" ", "A", "L", " ">> \o d2 \o <<"/">> \o DosDigitos(f.mes_fin) \o <<"/">> \o a
          [] f.formato = "inbursa" ->
               <<"D", "e", "l", " ">> \o d1 \o <<" ">> \o mes_impreso(f.mes_inicio) \o <<".", " ">> \o a
               \o <<" ", "a", "l", " ">> \o d2 \o <<" ">> \o mes_impreso(f.mes_fin) \o <<".", " ">> \o a
          [] f.formato = "banamex" ->
               <<"R", "E", "S", "U", "M", "E", "N", " ", "D", "E", "L", ":", " ">> \o d1 \o <<"/">> \o meses_archivo[f.mes_inicio]
               \o <<"/">> \o a \o <<" ", "A", "L", " ">> \o d2 \o <<"/">> \o meses_archivo[f.mes_fin]
               \o <<"/">> \o a

FuentesPeriodo ==
    { [formato |-> b, dia_inicio |-> 1, mes_inicio |-> m, dia_fin |-> d,
       mes_fin |-> n, anio |-> a] :
      b \in {"bbva", "inbursa", "banamex"}, m \in 1..12, d \in DiasFin,
      n \in 1..12, a \in AniosPeriodo }

InitPeriodo ==
    /\ BalanceEnReposo /\ ParserEnReposo /\ PipelineEnReposo /\ CorridasEnReposo /\ CruzadaEnReposo /\ ProcesarEnReposo /\ NormalizarEnReposo /\ SaldoPromedioEnReposo /\ MetadatosEnReposo /\ CSVEnReposo /\ AgruparEnReposo /\ ResumenEnReposo /\ MetodoPagoEnReposo
    /\ pe_fuente \in {f \in FuentesPeriodo : f.mes_fin \in {f.mes_inicio, f.mes_inicio + 1}}
    /\ pe_texto = texto_periodo(pe_fuente)
    /\ pe_archivo = <<>>
    /\ pe_fechas = <<>>

\* funcion_extraer_metadatos_completos of the statement's bank: the entry
\* "Periodo del estado de cuenta" (a BBVA heading reads "Periodo DEL ...")
periodo_de_metadatos(formato, texto) ==
    CASE formato = "bbva" -> bbva_periodo_archivo(<<"P", "e", "r", "i", "o", "d", "o", " ">> \o texto)
      [] formato = "inbursa" -> inbursa_periodo_archivo(texto)
      [] formato = "banamex" -> banamex_periodo_archivo(texto)

PeriodoDeMetadatos ==
    /\ pe_texto # <<>> /\ pe_archivo = <<>>
    /\ pe_archivo' = periodo_de_metadatos(pe_fuente.formato, pe_texto)
    /\ UNCHANGED <<pe_fuente, pe_texto, pe_fechas>>
    /\ UNCHANGED <<varsBalance, varsParser, varsPipeline, varsCorridas, varsCruzada, varsProcesar, varsNormalizar, varsSaldoPromedio, varsMetadatos, varsCSV, varsAgrupar, varsResumen, varsMetodoPago>>

FormatearPeriodo ==
    /\ pe_texto # <<>> /\ pe_fechas = <<>>
    /\ pe_fechas' = formatear_periodo(pe_texto)
    /\ UNCHANGED <<pe_fuente, pe_texto, pe_archivo>>
    /\ UNCHANGED <<varsBalance, varsParser, varsPipeline, varsCorridas, varsCruzada, varsProcesar, varsNormalizar, varsSaldoPromedio, varsMetadatos, varsCSV, varsAgrupar, varsResumen, varsMetodoPago>>

NextPeriodo == PeriodoDeMetadatos \/ FormatearPeriodo

SpecPeriodo == InitPeriodo /\ [][NextPeriodo]_vars

\* DDMonYYYY for a date, the month by its Spanish or by its English name
FormasDe(dia, mes, anio) ==
    { DosDigitos(dia) \o meses_archivo[mes] \o Decimales(anio),
      DosDigitos(dia) \o meses_locale[mes] \o Decimales(anio) }

\* C11: each supported period format is normalised to DDMonYYYY_DDMonYYYY
\* with the day, the month and the year of the source text, for the start
\* and for the end date, for each of the twelve months: by the metadata
\* extraction (file-name form) and by _formatear_periodo (the pair).
C11_PeriodoNormalizado ==
    LET f == pe_fuente
        inicios == FormasDe(f.dia_inicio, f.mes_inicio, f.anio)
        fines   == FormasDe(f.dia_fin, f.mes_fin, f.anio)
    IN  /\ pe_archivo # <<>> =>
              \E i \in inicios : \E g \in fines : pe_archivo = i \o <<"_">> \o g
        /\ pe_fechas # <<>> => pe_fechas[1] \in inicios /\ pe_fechas[2] \in fines

-----------------------------------------------------------------------------
(* SpecBalanceCualquiera: validar_balance called with any input, values     *)
(* that are not dicts included.                                             *)

DatosCualesquiera ==
    {NoDict} \cup
    { Campo("saldo_inicial", si) @@ Campo("total_depositos", td)
      @@ Campo("total_retiros", tr) @@ Campo("saldo_final", sf) :
      si \in OpcionesSaldoInicial, td \in OpcionesTotalDepositos,
      tr \in OpcionesTotalRetiros, sf \in OpcionesSaldoFinal }

InitBalanceCualquiera ==
    /\ vb_pc = "entrada"
    /\ vb_datos \in DatosCualesquiera
    /\ vb_txs = <<>>
    /\ vb_reporte = reporte_inicial
    /\ ParserEnReposo /\ PipelineEnReposo /\ CorridasEnReposo /\ PeriodoEnReposo /\ CruzadaEnReposo /\ ProcesarEnReposo /\ NormalizarEnReposo /\ SaldoPromedioEnReposo /\ MetadatosEnReposo /\ CSVEnReposo /\ AgruparEnReposo /\ ResumenEnReposo /\ MetodoPagoEnReposo

\* the caller builds the list passed as transacciones, of any values
AgregarEntrada ==
    /\ vb_pc = "entrada"
    /\ Len(vb_txs) < MaxTx
    /\ \E tx \in TxEntradas \cup {NoDict} : vb_txs' = Append(vb_txs, tx)
    /\ UNCHANGED <<vb_pc, vb_datos, vb_reporte, varsParser, varsPipeline, varsCorridas, varsPeriodo, varsCruzada, varsProcesar, varsNormalizar, varsSaldoPromedio, varsMetadatos, varsCSV, varsAgrupar, varsResumen, varsMetodoPago>>

NextBalanceCualquiera == AgregarEntrada \/ ValidarBalance

SpecBalanceCualquiera == InitBalanceCualquiera /\ [][NextBalanceCualquiera]_vars

EntradaSana ==
    es_dict(vb_datos) /\ \A i \in 1..Len(vb_txs) : es_dict(vb_txs[i])
Mensajes == {vb_reporte.mensajes[i] : i \in 1..Len(vb_reporte.mensajes)}
ExcedeDepositos == ~Cerca(vb_deposits, vb_sum_ingreso)
ExcedeRetiros == ~Cerca(vb_withdrawals, vb_sum_egreso)
ExcedeBalance ==
    ~Cerca(vb_closing, DecSub(DecAdd(vb_opening, vb_deposits), vb_withdrawals))

\* C12: validar_balance returns a report for any metadata and transaction
\* input (a value that is not a dict yields the report of the handler, both
\* flags FALSE); whenever the totals check or the balance check exceeds the
\* tolerance, the corresponding flag is FALSE and the messages contain the
\* discrepancy message of that check.
C12_ReportaDiscrepancias ==
    vb_pc = "retornado" =>
        /\ DOMAIN vb_reporte = {"balance_coherente", "totales_coherentes", "mensajes"}
        /\ vb_reporte.mensajes # <<>>
        /\ ~EntradaSana =>
              ~vb_reporte.totales_coherentes /\ ~vb_reporte.balance_coherente
        /\ (EntradaSana /\ ExcedeDepositos) =>
              ~vb_reporte.totales_coherentes /\ "ERROR_TOTALES_DEPOSITOS" \in Mensajes
        /\ (EntradaSana /\ ExcedeRetiros) =>
              ~vb_reporte.totales_coherentes /\ "ERROR_TOTALES_RETIROS" \in Mensajes
        /\ (EntradaSana /\ ExcedeBalance) =>
              ~vb_reporte.balance_coherente /\ "ERROR_BALANCE" \in Mensajes

\* reached: a call on dicts whose deposits differ by 0.02 from the sum and
\* whose balance is off returned both flags FALSE with the two messages
C12_Witness ==
    /\ vb_pc = "retornado"
    /\ EntradaSana /\ Len(vb_txs) = 2
    /\ ExcedeDepositos /\ ~ExcedeRetiros /\ ExcedeBalance
    /\ ~vb_reporte.totales_coherentes /\ ~vb_reporte.balance_coherente
    /\ vb_reporte.mensajes = <<"ERROR_TOTALES_DEPOSITOS", "ERROR_BALANCE">>

-----------------------------------------------------------------------------
(* utils/validators.py: validar_cruzada.  The score is a number of          *)
(* hundredths.  A result is a dict whose entries are wrapped: a value is    *)
(* [valor |-> v] or, for None, NoDict.                                      *)

RECURSIVE LCS(_, _)
LCS(a, b) ==
    IF a = <<>> \/ b = <<>> THEN 0
    ELSE IF a[1] = b[1] THEN 1 + LCS(Tail(a), Tail(b))
    ELSE Max(LCS(Tail(a), b), LCS(a, Tail(b)))

\* the integers nearest to num / den; a tie is decided by the binary floats
\* of the computation, and both neighbours are admitted
RedondeosDe(num, den) ==
    LET q == num \div den
        r == num % den
    IN  IF 2 * r < den THEN {q} ELSE IF 2 * r > den THEN {q + 1} ELSE {q, q + 1}

\* thefuzz: fuzz.ratio(a, b) for non-empty texts, the rounded percentage
\* 100 * 2 * LCS / (len(a) + len(b))
fuzz_ratio(a, b) == RedondeosDe(200 * LCS(a, b), Len(a) + Len(b))

\* a count ratio that adds the two lengths
puntaje_conteo_suma(len_a, len_b) ==
    [num |-> Min(len_a, len_b) + Max(len_a, len_b), den |-> Max(len_a, len_b)]

\* line 147: min(len_a, len_b) / max(len_a, len_b), as a fraction
puntaje_conteo(len_a, len_b) ==
    [num |-> Min(len_a, len_b), den |-> Max(len_a, len_b)]

\* lines 144-151: round(puntaje, 2) for a similarity and the two counts
puntaje_final(similitud_generales, len_a, len_b) ==
    IF Max(len_a, len_b) > 0
    THEN LET c == puntaje_conteo(len_a, len_b)
         IN  RedondeosDe(similitud_generales * c.den + 100 * c.num, 2 * c.den)
    ELSE {similitud_generales}

\* str(resultado.get('datos_generales', {}))
json_de(resultado) ==
    IF "datos_generales" \in DOMAIN resultado
    THEN (IF es_dict(resultado["datos_generales"])
          THEN resultado["datos_generales"].valor
          ELSE <<"N", "o", "n", "e">>)
    ELSE <<"{", "}">>

\* validar_cruzada(resultado_a, resultado_b): the reports it can return
validar_cruzada(resultado_a, resultado_b) ==
    IF ~es_dict(resultado_a) \/ ~es_dict(resultado_b)
    THEN {[puntaje_confianza |-> 0, mensajes |-> <<"ERROR">>]}      \* line 132/133
    ELSE LET trans_a == Get(resultado_a, "transacciones", [valor |-> <<>>])
             trans_b == Get(resultado_b, "transacciones", [valor |-> <<>>])
         IN  IF ~es_dict(trans_a) \/ ~es_dict(trans_b)                \* len(None)
             THEN {[puntaje_confianza |-> 0, mensajes |-> <<"SIMILITUD", "ERROR">>]}
             ELSE { [puntaje_confianza |-> p,
                     mensajes |-> <<"SIMILITUD", "CONTEO", "PUNTAJE">>] :
                    p \in UNION { puntaje_final(sim, Len(trans_a.valor), Len(trans_b.valor)) :
                                  sim \in fuzz_ratio(json_de(resultado_a),
                                                     json_de(resultado_b)) } }

-----------------------------------------------------------------------------
(* SpecCruzada: validar_cruzada on a pair of extraction results.            *)

MaxTxCruzada == 2

\* str(datos_generales) of a result
TextosDatos == {<<"{", "}">>, <<"{", "'", "a", "'", ":", " ", "1", "}">>,
                <<"{", "'", "a", "'", ":", " ", "2", "}">>, <<"{", "'", "b", "'", ":", " ", "1", "}">>}

ListasCruzada == {[i \in 1..n |-> "tx"] : n \in 0..MaxTxCruzada}

\* a result: not a dict, an empty dict, or a dict with the two keys, the
\* transactions a list or None
ResultadosCruzada ==
    {NoDict, <<>>} \cup
    { ("datos_generales" :> [valor |-> d]) @@ ("transacciones" :> t) :
      d \in TextosDatos, t \in {[valor |-> l] : l \in ListasCruzada} \cup {NoDict} }

InitCruzada ==
    /\ BalanceEnReposo /\ ParserEnReposo /\ PipelineEnReposo /\ CorridasEnReposo /\ PeriodoEnReposo /\ ProcesarEnReposo /\ NormalizarEnReposo /\ SaldoPromedioEnReposo /\ MetadatosEnReposo /\ CSVEnReposo /\ AgruparEnReposo /\ ResumenEnReposo /\ MetodoPagoEnReposo
    /\ vc_pc = "entrada"
    /\ vc_a \in ResultadosCruzada
    /\ vc_b \in ResultadosCruzada
    /\ vc_reporte = <<>>

ValidarCruzada ==
    /\ vc_pc = "entrada"
    /\ vc_reporte' \in validar_cruzada(vc_a, vc_b)
    /\ vc_pc' = "retornado"
    /\ UNCHANGED <<vc_a, vc_b>>
    /\ UNCHANGED <<varsBalance, varsParser, varsPipeline, varsCorridas, varsPeriodo, varsProcesar, varsNormalizar, varsSaldoPromedio, varsMetadatos, varsCSV, varsAgrupar, varsResumen, varsMetodoPago>>

NextCruzada == ValidarCruzada

SpecCruzada == InitCruzada /\ [][NextCruzada]_vars

\* the transaction list of a result that is a dict (None: NoDict)
ListaDe(resultado) == Get(resultado, "transacciones", [valor |-> <<>>])
ComparacionFalla ==
    \/ ~es_dict(vc_a) \/ ~es_dict(vc_b)
    \/ ~es_dict(ListaDe(vc_a)) \/ ~es_dict(ListaDe(vc_b))

\* C13: validar_cruzada returns a puntaje_confianza in [0, 1] (0..100
\* hundredths) for every pair of results, pairs with empty lists or lists of
\* unequal length included, and 0.0 when the comparison itself fails.
C13_PuntajeEnRango ==
    vc_pc = "retornado" =>
        /\ vc_reporte.puntaje_confianza \in 0..100
        /\ ComparacionFalla => vc_reporte.puntaje_confianza = 0

\* reached: two results with different metadata and lists of lengths 1 and 2
\* got a score strictly between 0 and 1
C13_Witness ==
    /\ vc_pc = "retornado"
    /\ ~ComparacionFalla
    /\ Len(ListaDe(vc_a).valor) = 1 /\ Len(ListaDe(vc_b).valor) = 2
    /\ json_de(vc_a) # json_de(vc_b)
    /\ vc_reporte.puntaje_confianza \in 1..99

-----------------------------------------------------------------------------
(* Claims about the dispatch of _parsear_texto (SpecPipeline)               *)

LlamadasDe(hecho) == {hecho.llamadas[i] : i \in 1..Len(hecho.llamadas)}

\* C14: for every parser key other than 'desconocido', _parsear_texto
\* dispatches to a module that provides both entry points: each file whose
\* bank was recognised has parsear_datos_generales and parsear_transacciones
\* called, and no _parsear_texto call of it ends in an exception.
C14_DespachoNoFalla ==
    \A i \in 1..Len(pl_ultimo) :
        pl_ultimo[i].parser_key # "desconocido" =>
            /\ parsear_texto(pl_ultimo[i].parser_key).termina = "resultado"
            /\ {"parsear_datos_generales", "parsear_transacciones"}
                   \subseteq LlamadasDe(pl_ultimo[i])

-----------------------------------------------------------------------------
(* The metadata dict of the Inbursa parser and the three output files of    *)
(* main_extractor.py.  The keys are written without their accents.          *)

\* re.sub(c+, sust, s): each maximal run of the character c becomes sust
RECURSIVE ColapsarCorridas(_, _, _)
ColapsarCorridas(s, c, sust) ==
    IF s = <<>> THEN <<>>
    ELSE IF s[1] = c
    THEN sust \o ColapsarCorridas(SubSeq(s, FinCorrida(s, 1, {c}) + 1, Len(s)), c, sust)
    ELSE <<s[1]>> \o ColapsarCorridas(Tail(s), c, sust)

\* field_extractors.funcion_limpiar_nombre_empresa(nombre_empresa)
funcion_limpiar_nombre_empresa(nombre_empresa) ==
    LET caracteres_invalidos == {"/", "\\", ":", "?", "\"", "<", ">", "|"}
        reemplazado == [i \in 1..Len(nombre_empresa) |->
                           IF nombre_empresa[i] \in caracteres_invalidos THEN "-"
                           ELSE nombre_empresa[i]]
    IN  Strip(ColapsarCorridas(ColapsarCorridas(reemplazado, "-", <<"-">>), " ", <<" ">>))

K_NOMBRE_EMPRESA == "Nombre de la empresa del estado de cuenta"

\* datos of inbursa_parser.funcion_extraer_metadatos_completos when nothing
\* is found in the text (lines 97-107)
datos_inbursa_iniciales ==
    [nombre_empresa |-> <<>>, periodo |-> <<>>, numero_cuenta |-> <<>>,
     saldo_inicial |-> 0, saldo_final |-> 0, total_depositos |-> 0,
     total_retiros |-> 0, rfc |-> <<>>, saldo_promedio |-> 0]

\* the dict funcion_extraer_metadatos_completos returns, lines 164-176, for
\* the values datos its searches have found ('_anio_aux' is set with the
\* period, line 142)
inbursa_metadatos(datos) ==
    (K_NOMBRE_EMPRESA :> funcion_limpiar_nombre_empresa(datos.nombre_empresa))
    @@ (K_NUMERO_CUENTA :> datos.numero_cuenta)
    @@ (K_PERIODO :> funcion_formatear_periodo_archivo(datos.periodo))
    @@ ("Saldo inicial de la cuenta" :> datos.saldo_inicial)
    @@ ("Saldo final de la cuenta" :> datos.saldo_final)
    @@ ("Saldo promedio del periodo" :> datos.saldo_promedio)
    @@ ("Cantidad total de depositos" :> datos.total_depositos)
    @@ ("Cantidad total de retiros" :> datos.total_retiros)
    @@ ("Giro de la empresa" :> <<>>)
    @@ ("RFC" :> datos.rfc)
    @@ (K_ANIO_AUX :> IF "_anio_aux" \in DOMAIN datos THEN datos["_anio_aux"]
                      ELSE <<"2", "0", "2", "5">>)

\* BankStatementExtractor._formatear_nombre_archivo(datos_generales)
formatear_nombre_archivo(datos_generales) ==
    LET nombre0 == Get(datos_generales, "nombre_empresa", <<"S", "I", "N", "_", "N", "O", "M", "B", "R", "E">>)
        nombre  == IF nombre0 = <<>> THEN <<"S", "I", "N", "_", "N", "O", "M", "B", "R", "E">> ELSE nombre0
        nombre_limpio ==
            ColapsarCorridas(
                Strip(SelectSeq(Upper(nombre),
                                LAMBDA c : c \in Mayusculas \cup Digitos \cup {"_", " "})),
                " ", <<"_">>)
        periodo0 == Get(datos_generales, "periodo", <<"S", "I", "N", "_", "P", "E", "R", "I", "O", "D", "O">>)
        periodo  == IF periodo0 = <<>> THEN <<"S", "I", "N", "_", "P", "E", "R", "I", "O", "D", "O">> ELSE periodo0
        fechas   == formatear_periodo(periodo)
    IN  nombre_limpio \o <<"_">> \o fechas[1] \o <<"_">> \o fechas[2]

\* the key guardar_resultados reads the class of a transaction from
CLAVE_CLASIFICACION == "clasificacion"

\* [tx for tx in transacciones if tx.get('clasificacion') == clase]
filtrar_clase(transacciones, clase) ==
    SelectSeq(transacciones, LAMBDA tx : Get(tx, CLAVE_CLASIFICACION, "") = clase)

\* BankStatementExtractor.guardar_resultados(resultado_completo, output_dir):
\* the base name and the contents of the three files it writes
guardar_resultados(resultado_completo) ==
    LET datos_generales == Get(resultado_completo, "datos_generales", <<>>)
        transacciones   == Get(resultado_completo, "transacciones", <<>>)
    IN  [base_filename |-> formatear_nombre_archivo(datos_generales),
         DATOS    |-> datos_generales,
         INGRESOS |-> filtrar_clase(transacciones, "Ingreso"),
         EGRESOS  |-> filtrar_clase(transacciones, "Egreso")]

-----------------------------------------------------------------------------
(* SpecProcesar: procesar_pdf, step by step, on a file whose bank has been  *)
(* recognised.  The heading of the file is given by the values the metadata *)
(* searches find in it, the movements by lines of the Inbursa vocabulary.   *)

MaxLineasProcesar == 2

NOMBRE_ACME == <<"A", "C", "M", "E", " ", "S", "A", " ", "D", "E", " ", "C", "V">>
LINEA_PERIODO == <<"D", "e", "l", " ", "0", "1", " ", "A", "b", "r", ".", " ", "2", "0", "2", "5", " ", "a", "l", " ", "3", "0", " ", "A", "b", "r", ".", " ", "2", "0", "2", "5">>

\* datos of the Inbursa metadata extraction for a heading with the company
\* name nombre (or none) and the period line linea_periodo (or none)
datos_inbursa(nombre, linea_periodo) ==
    LET p == inbursa_periodo(linea_periodo)
        base == [datos_inbursa_iniciales EXCEPT
                    !.nombre_empresa = nombre, !.periodo = p.periodo,
                    !.numero_cuenta = CUENTA_PROPIA]
    IN  IF p.anio_aux = <<>> THEN base ELSE base @@ ("_anio_aux" :> p.anio_aux)

DatosEncabezado ==
    {datos_inbursa(n, l) : n \in {<<>>, NOMBRE_ACME}, l \in {<<>>, LINEA_PERIODO}}

\* inbursa_parser.parsear_datos_generales(text_input): a text without pages
\* has none of the heading's values
parsear_datos_generales(text_input, datos) ==
    inbursa_metadatos(IF text_input = <<>> THEN datos_inbursa_iniciales ELSE datos)

\* what _parsear_texto(paginas_texto, parser_key) returns, None (<<>>) when
\* it raises; the key 'saldo_inicial' is not in the dict, so 0 is passed on
resultado_de_parsear(paginas_texto, parser_key, datos) ==
    IF parsear_texto(parser_key).termina = "excepcion" THEN <<>>
    ELSE LET datos_generales == parsear_datos_generales(paginas_texto, datos)
         IN  ("datos_generales" :> datos_generales)
             @@ ("transacciones" :>
                    parsear_transacciones(paginas_texto,
                                          <<Get(datos_generales, "saldo_inicial", 0)>>,
                                          datos_generales))

\* "not resultado_final or not resultado_final.get('datos_generales')"
sin_datos(resultado) ==
    resultado = <<>> \/ Get(resultado, "datos_generales", <<>>) = <<>>

\* fuzz.ratio of the texts of two metadata dicts: 100 for equal dicts; for
\* dicts that differ the model admits a low, a middle and the top value
SimilitudesModelo == {0, 50, 100}
similitudes_de(datos_a, datos_b) ==
    IF datos_a = datos_b THEN {100} ELSE SimilitudesModelo

\* validators.validar_cruzada on two parses, with similitudes_de for the
\* similarity of the metadata; {<<>>} when a parse raised (lines 383-385)
reportes_de(resultado_a, resultado_b) ==
    IF resultado_a = <<>> \/ resultado_b = <<>> THEN {<<>>}
    ELSE { [puntaje_confianza |-> p,
            mensajes |-> <<"SIMILITUD", "CONTEO", "PUNTAJE">>] :
           p \in UNION { puntaje_final(sim, Len(resultado_a["transacciones"]),
                                       Len(resultado_b["transacciones"])) :
                         sim \in similitudes_de(resultado_a["datos_generales"],
                                                resultado_b["datos_generales"]) } }

\* a step 6 that gives the file up when the score is not 1.0
paso_tras_cruzada_exigente(reporte_cruzado) ==
    IF reporte_cruzado # <<>> /\ reporte_cruzado.puntaje_confianza < 100
    THEN "abandonado" ELSE "paso7"

\* lines 369-390: step 7 follows step 6 whatever the report, and when the
\* cross validation raised
paso_tras_cruzada(reporte_cruzado) == "paso7"

InitProcesar ==
    /\ BalanceEnReposo /\ ParserEnReposo /\ PipelineEnReposo /\ CorridasEnReposo /\ PeriodoEnReposo /\ CruzadaEnReposo /\ NormalizarEnReposo /\ SaldoPromedioEnReposo /\ MetadatosEnReposo /\ CSVEnReposo /\ AgruparEnReposo /\ ResumenEnReposo /\ MetodoPagoEnReposo
    /\ pr_pc = "paso4"
    /\ pr_parser_key \in parsers
    /\ pr_datos \in DatosEncabezado
    /\ \E s \in {<<>>} \cup SecuenciasHasta(LineasInbursa, MaxLineasProcesar) :
          pr_paginas_ocr = <<EncabezadoInbursa>> \o s
    /\ pr_paginas_nativas \in {<<>>, pr_paginas_ocr}
    /\ pr_resultado_final = <<>>
    /\ pr_archivos = <<>>
    \* _parsear_texto is a function of the text and the key alone: its result
    \* for each of the two texts of the file
    /\ pr_parseos = [p \in {pr_paginas_nativas, pr_paginas_ocr} |->
                        resultado_de_parsear(p, pr_parser_key, pr_datos)]

\* step 4, lines 329-337: the native text is parsed
Paso4Nativo ==
    /\ pr_pc = "paso4"
    /\ pr_resultado_final' = pr_parseos[pr_paginas_nativas]
    /\ pr_pc' = IF sin_datos(pr_resultado_final') THEN "reintento" ELSE "paso5"
    /\ UNCHANGED <<pr_parser_key, pr_datos, pr_paginas_nativas, pr_paginas_ocr, pr_archivos, pr_parseos>>
    /\ UNCHANGED <<varsBalance, varsParser, varsPipeline, varsCorridas, varsPeriodo, varsCruzada, varsNormalizar, varsSaldoPromedio, varsMetadatos, varsCSV, varsAgrupar, varsResumen, varsMetodoPago>>

\* steps 4.1 and 4.2, lines 340-352: the OCR text is parsed
Paso4OCR ==
    /\ pr_pc = "reintento"
    /\ pr_resultado_final' = pr_parseos[pr_paginas_ocr]
    /\ pr_pc' = IF sin_datos(pr_resultado_final') THEN "abandonado" ELSE "paso5"
    /\ UNCHANGED <<pr_parser_key, pr_datos, pr_paginas_nativas, pr_paginas_ocr, pr_archivos, pr_parseos>>
    /\ UNCHANGED <<varsBalance, varsParser, varsPipeline, varsCorridas, varsPeriodo, varsCruzada, varsNormalizar, varsSaldoPromedio, varsMetadatos, varsCSV, varsAgrupar, varsResumen, varsMetodoPago>>

\* step 5, lines 357-366
Paso5Balance ==
    /\ pr_pc = "paso5"
    /\ pr_resultado_final' =
           ("validacion_balance" :>
               validar_balance(pr_resultado_final["datos_generales"],
                               pr_resultado_final["transacciones"]))
           @@ pr_resultado_final
    /\ pr_pc' = "paso6"
    /\ UNCHANGED <<pr_parser_key, pr_datos, pr_paginas_nativas, pr_paginas_ocr, pr_archivos, pr_parseos>>
    /\ UNCHANGED <<varsBalance, varsParser, varsPipeline, varsCorridas, varsPeriodo, varsCruzada, varsNormalizar, varsSaldoPromedio, varsMetadatos, varsCSV, varsAgrupar, varsResumen, varsMetodoPago>>

\* step 6, lines 369-385
Paso6Cruzada ==
    /\ pr_pc = "paso6"
    /\ \E reporte_cruzado \in reportes_de(pr_parseos[pr_paginas_nativas],
                                          pr_parseos[pr_paginas_ocr]) :
          /\ pr_resultado_final' =
                 IF reporte_cruzado = <<>> THEN pr_resultado_final
                 ELSE ("validacion_cruzada" :> reporte_cruzado) @@ pr_resultado_final
          /\ pr_pc' = paso_tras_cruzada(reporte_cruzado)
    /\ UNCHANGED <<pr_parser_key, pr_datos, pr_paginas_nativas, pr_paginas_ocr, pr_archivos, pr_parseos>>
    /\ UNCHANGED <<varsBalance, varsParser, varsPipeline, varsCorridas, varsPeriodo, varsCruzada, varsNormalizar, varsSaldoPromedio, varsMetadatos, varsCSV, varsAgrupar, varsResumen, varsMetodoPago>>

\* step 7, lines 388-390
Paso7Guardar ==
    /\ pr_pc = "paso7"
    /\ pr_archivos' = guardar_resultados(pr_resultado_final)
    /\ pr_pc' = "guardado"
    /\ UNCHANGED <<pr_parser_key, pr_datos, pr_paginas_nativas, pr_paginas_ocr, pr_resultado_final, pr_parseos>>
    /\ UNCHANGED <<varsBalance, varsParser, varsPipeline, varsCorridas, varsPeriodo, varsCruzada, varsNormalizar, varsSaldoPromedio, varsMetadatos, varsCSV, varsAgrupar, varsResumen, varsMetodoPago>>

NextProcesar == Paso4Nativo \/ Paso4OCR \/ Paso5Balance \/ Paso6Cruzada \/ Paso7Guardar

SpecProcesar == InitProcesar /\ [][NextProcesar]_vars

\* the sequential code of procesar_pdf runs every step it has reached
SpecProcesarJusto == InitProcesar /\ [][NextProcesar]_vars /\ WF_vars(NextProcesar)

SIN_NOMBRE == <<"S", "I", "N", "_", "N", "O", "M", "B", "R", "E">>
FECHA_INICIO == <<"F", "E", "C", "H", "A", "_", "I", "N", "I", "C", "I", "O">>
FECHA_FIN == <<"F", "E", "C", "H", "A", "_", "F", "I", "N">>

\* C15: the base name of the files written for a statement starts with the
\* SIN_NOMBRE placeholder only when the parser's metadata has no company
\* name, and holds FECHA_INICIO or FECHA_FIN only when the metadata has no
\* recognised period
C15_NombreDeArchivo ==
    pr_pc = "guardado" =>
        LET datos_generales == pr_resultado_final["datos_generales"]
            base_filename   == pr_archivos.base_filename
        IN  /\ datos_generales[K_NOMBRE_EMPRESA] # <<>>
                => ~EnPos(base_filename, 1, SIN_NOMBRE)
            /\ datos_generales[K_PERIODO] \notin {<<>>, PERIODO_NO_DEFINIDO}
                => /\ ~Contiene(base_filename, FECHA_INICIO)
                   /\ ~Contiene(base_filename, FECHA_FIN)

\* C16: the credits file holds exactly the Ingreso transactions of the parse
\* and the debits file exactly its Egreso transactions, each in the order
\* of the parse
C16_ParticionPorClase ==
    pr_pc = "guardado" =>
        LET transacciones == pr_resultado_final["transacciones"]
        IN  /\ pr_archivos.INGRESOS =
                   SelectSeq(transacciones, LAMBDA tx : tx[K_CLASIFICACION] = "Ingreso")
            /\ pr_archivos.EGRESOS =
                   SelectSeq(transacciones, LAMBDA tx : tx[K_CLASIFICACION] = "Egreso")

C20_AuxiliarNoSerializado ==
    pr_pc = "guardado" => K_ANIO_AUX \notin DOMAIN pr_archivos.DATOS

-----------------------------------------------------------------------------
(* SpecNormalizadores: limpiar_monto, funcion_extraer_monto and             *)
(* funcion_extraer_fecha_normalizada are called on a string made of up to   *)
(* MaxTrozos pieces of text, or on a date written in full.                  *)

MaxTrozos == 3

Trozos == {<<"1">>, <<".">>, <<"-">>, <<"$">>, <<"/">>, <<"1", "2", "/">>, <<"E", "N", "E">>, <<"A">>}

\* dates written in full
FechasEscritas == {<<"1", "2", "/", "1", "2", "/", "2", "0", "2", "5">>, <<"0", "1", "/", "0", "2", "/", "2", "0", "2", "4">>}

TextosNormalizar ==
    {<<>>} \cup {Aplanar(t) : t \in SecuenciasHasta(Trozos, MaxTrozos)}
           \cup {f \o r : f \in FechasEscritas, r \in {<<>>} \cup Trozos}

InitNormalizadores ==
    /\ BalanceEnReposo /\ ParserEnReposo /\ PipelineEnReposo /\ CorridasEnReposo /\ PeriodoEnReposo /\ CruzadaEnReposo /\ ProcesarEnReposo /\ SaldoPromedioEnReposo /\ MetadatosEnReposo /\ CSVEnReposo /\ AgruparEnReposo /\ ResumenEnReposo /\ MetodoPagoEnReposo
    /\ nz_texto \in TextosNormalizar
    /\ nz_argv \in Argvs
    /\ nz_resultado = <<>>

\* validators.limpiar_monto(nz_texto)
LimpiarMonto ==
    /\ "limpiar_monto" \notin DOMAIN nz_resultado
    /\ nz_resultado' = ("limpiar_monto" :> limpiar_monto(Txt(nz_texto))) @@ nz_resultado
    /\ UNCHANGED <<nz_texto, nz_argv>>
    /\ UNCHANGED <<varsBalance, varsParser, varsPipeline, varsCorridas, varsPeriodo, varsCruzada, varsProcesar, varsSaldoPromedio, varsMetadatos, varsCSV, varsAgrupar, varsResumen, varsMetodoPago>>

\* field_extractors.funcion_extraer_monto(nz_texto)
ExtraerMonto ==
    /\ "funcion_extraer_monto" \notin DOMAIN nz_resultado
    /\ nz_resultado' =
           ("funcion_extraer_monto" :> funcion_extraer_monto(nz_texto)) @@ nz_resultado
    /\ UNCHANGED <<nz_texto, nz_argv>>
    /\ UNCHANGED <<varsBalance, varsParser, varsPipeline, varsCorridas, varsPeriodo, varsCruzada, varsProcesar, varsSaldoPromedio, varsMetadatos, varsCSV, varsAgrupar, varsResumen, varsMetodoPago>>

\* field_extractors.funcion_extraer_fecha_normalizada(nz_texto)
ExtraerFechaNormalizada ==
    /\ "funcion_extraer_fecha_normalizada" \notin DOMAIN nz_resultado
    /\ nz_resultado' =
           ("funcion_extraer_fecha_normalizada" :>
               funcion_extraer_fecha_normalizada(nz_texto, nz_argv)) @@ nz_resultado
    /\ UNCHANGED <<nz_texto, nz_argv>>
    /\ UNCHANGED <<varsBalance, varsParser, varsPipeline, varsCorridas, varsPeriodo, varsCruzada, varsProcesar, varsSaldoPromedio, varsMetadatos, varsCSV, varsAgrupar, varsResumen, varsMetodoPago>>

NextNormalizadores == LimpiarMonto \/ ExtraerMonto \/ ExtraerFechaNormalizada

SpecNormalizadores == InitNormalizadores /\ [][NextNormalizadores]_vars

\* a text with no digit, and a text Decimal cannot read once the characters
\* other than digits, '.' and '-' are gone: two points, or a '-' that is not
\* the first character
SinDigitos(t) == \A i \in 1..Len(t) : t[i] \notin Digitos
MalFormado(t) ==
    \/ Count(t, ".") > 1
    \/ \E i \in 2..Len(t) : t[i] = "-" /\ \E j \in 1..(i - 1) : t[j] \in Digitos \cup {".", "-"}

EsDecimal(x) == DOMAIN x = {"m", "e"} /\ x.m \in Int /\ x.e \in Nat
EsFecha(x) ==
    /\ DOMAIN x = 1..Len(x) /\ Len(x) >= 10
    /\ TodosEn(x, 1, 2, Digitos) /\ x[3] = "/"
    /\ TodosEn(x, 4, 5, Digitos) /\ x[6] = "/"
    /\ TodosEn(x, 7, 10, Digitos)

\* C18: each of the three functions returns a value for every string (a
\* Decimal, a float, a date text) and none raises; a monetary text that
\* cannot be read as a number gives 0
C18_NormalizadoresTotales ==
    /\ "limpiar_monto" \in DOMAIN nz_resultado =>
          /\ EsDecimal(nz_resultado["limpiar_monto"])
          /\ SinDigitos(nz_texto) \/ MalFormado(nz_texto)
                => nz_resultado["limpiar_monto"] = DecCero
    /\ "funcion_extraer_monto" \in DOMAIN nz_resultado =>
          /\ nz_resultado["funcion_extraer_monto"] \in Nat
          /\ SinDigitos(nz_texto) => nz_resultado["funcion_extraer_monto"] = 0
    /\ "funcion_extraer_fecha_normalizada" \in DOMAIN nz_resultado =>
          EsFecha(nz_resultado["funcion_extraer_fecha_normalizada"])

\* the three functions have returned for a text Decimal rejects, that is no
\* amount and no date
C18_Witness ==
    /\ DOMAIN nz_resultado =
          {"limpiar_monto", "funcion_extraer_monto", "funcion_extraer_fecha_normalizada"}
    /\ MalFormado(nz_texto) /\ ~SinDigitos(nz_texto)
    /\ nz_resultado["limpiar_monto"] = DecCero
    /\ nz_resultado["funcion_extraer_fecha_normalizada"] =
          <<"0", "1", "/", "0", "1", "/">> \o anio_detectado(nz_argv)

-----------------------------------------------------------------------------
(* SpecSaldoPromedio: the average balance in the metadata extraction of the *)
(* three parsers.  The text is a sequence of words separated by blanks; the *)
(* opening and closing balance are what the earlier searches have found.    *)

MaxPalabras == 3

RENDIMIENTO == <<"R", "E", "N", "D", "I", "M", "I", "E", "N", "T", "O">>
SALDO_PROMEDIO == <<"S", "A", "L", "D", "O", " ", "P", "R", "O", "M", "E", "D", "I", "O">>

\* the first k >= desde with P(texto[k]), 0 when there is none
PrimeraPalabra(texto, desde, P(_)) ==
    IF \E k \in desde..Len(texto) : P(texto[k])
    THEN CHOOSE k \in desde..Len(texto) :
             P(texto[k]) /\ \A j \in desde..(k - 1) : ~P(texto[j])
    ELSE 0

\* the group of ([\d,]+\.?\d*) matched at the start of the word t, <<>>
\* when it does not match there
grupo_monto(t) ==
    LET q == FinCorrida(t, 1, Digitos \cup {","})
        r == IF q + 1 <= Len(t) /\ t[q + 1] = "." THEN q + 1 ELSE q
    IN  IF q = 0 THEN <<>> ELSE SubSeq(t, 1, FinCorrida(t, r + 1, Digitos))

\* field_extractors.funcion_extraer_saldo_promedio(texto_completo): the
\* amount that follows 'Saldo Promedio' after the first 'Rendimiento' (the
\* texts of the model are shorter than the 1000 characters of the section)
funcion_extraer_saldo_promedio(texto_completo) ==
    LET inicio == PrimeraPalabra(texto_completo, 1,
                                 LAMBDA t : \E k \in 1..Len(t) : EnPosSinCaso(t, k, RENDIMIENTO))
        match  == PrimeraPalabra(texto_completo, Max(inicio, 1),
                                 LAMBDA t : \E k \in 1..Len(t) : EnPosSinCaso(t, k, SALDO_PROMEDIO) /\ k + Len(SALDO_PROMEDIO) = Len(t) + 1)
    IN  IF inicio = 0 THEN 0
        ELSE IF match = 0 \/ match = Len(texto_completo) THEN 0
        ELSE IF grupo_monto(texto_completo[match + 1]) = <<>> THEN 0
        ELSE funcion_extraer_monto(grupo_monto(texto_completo[match + 1]))

\* the group of ([$]?[\d,]+\.\d{2}) in the word t: the leftmost run of
\* digits and commas followed by a point and two digits, <<>> when none
grupo_monto_centavos(t) ==
    LET vale(p) == LET q == FinCorrida(t, p, Digitos \cup {","})
                   IN  /\ q >= p /\ q + 3 <= Len(t) /\ t[q + 1] = "."
                       /\ t[q + 2] \in Digitos /\ t[q + 3] \in Digitos
    IN  IF \E p \in 1..Len(t) : vale(p)
        THEN LET p == CHOOSE p \in 1..Len(t) : vale(p) /\ \A j \in 1..(p - 1) : ~vale(j)
             IN  SubSeq(t, p, FinCorrida(t, p, Digitos \cup {","}) + 3)
        ELSE <<>>

\* banamex_empresa_parser, lines 218-220: the first amount with cents after
\* 'Saldo Promedio', anywhere in the text; datos['saldo_promedio'] is left
\* as it is when there is no match
banamex_promedio_explicito(texto, datos) ==
    LET etiqueta == PrimeraPalabra(texto, 1,
                                   LAMBDA t : \E k \in 1..Len(t) : EnPosSinCaso(t, k, SALDO_PROMEDIO))
        monto    == PrimeraPalabra(texto, etiqueta + 1,
                                   LAMBDA t : grupo_monto_centavos(t) # <<>>)
    IN  IF etiqueta = 0 \/ monto = 0 THEN datos.saldo_promedio
        ELSE funcion_extraer_monto(grupo_monto_centavos(texto[monto]))

\* lines 223-225: the mean replaces a zero average when the opening balance
\* is positive
banamex_promedio_calculado(saldo_promedio, datos) ==
    IF saldo_promedio = 0 /\ datos.saldo_inicial > 0
    THEN (datos.saldo_inicial + datos.saldo_final) \div 2
    ELSE saldo_promedio

\* datos['saldo_promedio'] at the end of funcion_extraer_metadatos_completos
banamex_saldo_promedio(texto, datos) ==
    banamex_promedio_calculado(banamex_promedio_explicito(texto, datos), datos)
bbva_saldo_promedio(texto, datos) == funcion_extraer_saldo_promedio(texto)
inbursa_saldo_promedio(texto, datos) == funcion_extraer_saldo_promedio(texto)

\* amounts of the model: even numbers of cents, so that their mean is a
\* whole number of cents
SaldosModelo == {0, 100000, 130000}

Palabras == {<<"R", "e", "n", "d", "i", "m", "i", "e", "n", "t", "o">>, <<"S", "a", "l", "d", "o", " ", "P", "r", "o", "m", "e", "d", "i", "o">>, <<"1", ",", "5", "0", "0", ".", "0", "0">>, <<"0", ".", "0", "0">>}

InitSaldoPromedio ==
    /\ BalanceEnReposo /\ ParserEnReposo /\ PipelineEnReposo /\ CorridasEnReposo /\ PeriodoEnReposo /\ CruzadaEnReposo /\ ProcesarEnReposo /\ NormalizarEnReposo /\ MetadatosEnReposo /\ CSVEnReposo /\ AgruparEnReposo /\ ResumenEnReposo /\ MetodoPagoEnReposo
    /\ sp_banco \in {"bbva", "banamex", "inbursa"}
    /\ sp_texto \in {<<>>} \cup SecuenciasHasta(Palabras, MaxPalabras)
    /\ sp_datos \in [saldo_inicial : SaldosModelo, saldo_final : SaldosModelo, saldo_promedio : {0}]
    /\ sp_pc = "buscar"

\* bbva_parser.funcion_extraer_metadatos_completos, line 143
BbvaSaldoPromedio ==
    /\ sp_pc = "buscar" /\ sp_banco = "bbva"
    /\ sp_datos' = [sp_datos EXCEPT !.saldo_promedio = bbva_saldo_promedio(sp_texto, sp_datos)]
    /\ sp_pc' = "hecho"
    /\ UNCHANGED <<sp_banco, sp_texto>>
    /\ UNCHANGED <<varsBalance, varsParser, varsPipeline, varsCorridas, varsPeriodo, varsCruzada, varsProcesar, varsNormalizar, varsMetadatos, varsCSV, varsAgrupar, varsResumen, varsMetodoPago>>

\* banamex_empresa_parser.funcion_extraer_metadatos_completos, lines 216-225
BanamexSaldoPromedio ==
    /\ sp_pc = "buscar" /\ sp_banco = "banamex"
    /\ sp_datos' = [sp_datos EXCEPT !.saldo_promedio = banamex_saldo_promedio(sp_texto, sp_datos)]
    /\ sp_pc' = "hecho"
    /\ UNCHANGED <<sp_banco, sp_texto>>
    /\ UNCHANGED <<varsBalance, varsParser, varsPipeline, varsCorridas, varsPeriodo, varsCruzada, varsProcesar, varsNormalizar, varsMetadatos, varsCSV, varsAgrupar, varsResumen, varsMetodoPago>>

\* inbursa_parser.funcion_extraer_metadatos_completos, line 162
InbursaSaldoPromedio ==
    /\ sp_pc = "buscar" /\ sp_banco = "inbursa"
    /\ sp_datos' = [sp_datos EXCEPT !.saldo_promedio = inbursa_saldo_promedio(sp_texto, sp_datos)]
    /\ sp_pc' = "hecho"
    /\ UNCHANGED <<sp_banco, sp_texto>>
    /\ UNCHANGED <<varsBalance, varsParser, varsPipeline, varsCorridas, varsPeriodo, varsCruzada, varsProcesar, varsNormalizar, varsMetadatos, varsCSV, varsAgrupar, varsResumen, varsMetodoPago>>

NextSaldoPromedio == BbvaSaldoPromedio \/ BanamexSaldoPromedio \/ InbursaSaldoPromedio

SpecSaldoPromedio == InitSaldoPromedio /\ [][NextSaldoPromedio]_vars

\* the explicit average of the statement: what the bank's search for the
\* label finds, 0 when the label is absent
promedio_explicito(banco, texto) ==
    IF banco = "banamex"
    THEN banamex_promedio_explicito(texto, [saldo_promedio |-> 0])
    ELSE funcion_extraer_saldo_promedio(texto)

\* C19: in each bank's extraction, when the explicit average is absent or
\* zero the average balance is (opening balance + closing balance) / 2
C19_PromedioPorDefecto ==
    sp_pc = "hecho" /\ promedio_explicito(sp_banco, sp_texto) = 0
        => 2 * sp_datos.saldo_promedio = sp_datos.saldo_inicial + sp_datos.saldo_final

-----------------------------------------------------------------------------
(* SpecFechas: the runs of the Banamex and the Inbursa parser that          *)
(* SpecParser has, on statements whose date lines write the day with one    *)
(* digit, the month in lower case or a month token that names no month.     *)

MaxLineasFechas == 2

LineasFechasBanamex == {
    <<<<"0", "5">>, <<"E", "N", "E">>, <<"P", "A", "G", "O">>, <<"R", "E", "C", "I", "B", "I", "D", "O">>, <<"3", "0", "0", ".", "0", "0">>, <<"1", ",", "3", "0", "0", ".", "0", "0">>>>,
    <<<<"5">>, <<"E", "N", "E">>, <<"P", "A", "G", "O">>, <<"R", "E", "C", "I", "B", "I", "D", "O">>, <<"3", "0", "0", ".", "0", "0">>, <<"1", ",", "3", "0", "0", ".", "0", "0">>>>,
    <<<<"0", "7">>, <<"e", "n", "e">>, <<"P", "A", "G", "O">>, <<"R", "E", "C", "I", "B", "I", "D", "O">>, <<"3", "0", "0", ".", "0", "0">>, <<"1", ",", "3", "0", "0", ".", "0", "0">>>>,
    <<<<"R", "E", "F">>, <<"0", "0", "1", "2", "3", "4", "5", "6", "7", "8">>>>}
LineasFechasInbursa == {
    <<<<"0", "5">>, <<"A", "B", "R">>, <<"D", "E", "P", "O", "S", "I", "T", "O">>, <<"S", "P", "E", "I">>, <<"5", "0", "0", ".", "0", "0">>, <<"1", ",", "5", "0", "0", ".", "0", "0">>>>,
    <<<<"5">>, <<"A", "B", "R">>, <<"D", "E", "P", "O", "S", "I", "T", "O">>, <<"S", "P", "E", "I">>, <<"5", "0", "0", ".", "0", "0">>, <<"1", ",", "5", "0", "0", ".", "0", "0">>>>,
    <<<<"0", "7">>, <<"a", "b", "r">>, <<"D", "E", "P", "O", "S", "I", "T", "O">>, <<"S", "P", "E", "I">>, <<"5", "0", "0", ".", "0", "0">>, <<"1", ",", "5", "0", "0", ".", "0", "0">>>>,
    <<<<"0", "9">>, <<"X", "Y", "Z">>, <<"D", "E", "P", "O", "S", "I", "T", "O">>, <<"S", "P", "E", "I">>, <<"5", "0", "0", ".", "0", "0">>, <<"1", ",", "5", "0", "0", ".", "0", "0">>>>,
    <<<<"R", "E", "F">>, <<"1", "2">>>>}

InitFechas ==
    /\ BalanceEnReposo /\ PipelineEnReposo /\ CorridasEnReposo /\ PeriodoEnReposo /\ CruzadaEnReposo /\ ProcesarEnReposo /\ NormalizarEnReposo /\ SaldoPromedioEnReposo /\ MetadatosEnReposo /\ CSVEnReposo /\ AgruparEnReposo /\ ResumenEnReposo /\ MetodoPagoEnReposo
    /\ pp_pc = "entrada"
    /\ pp_banco \in {"banamex", "inbursa"}
    /\ pp_layout = ""
    /\ \/ /\ pp_banco = "banamex"
          /\ pp_argv \in Argvs
          /\ \E periodo \in PeriodosBanamex :
                pp_metadatos = (K_NUMERO_CUENTA :> CUENTA_PROPIA) @@ (K_PERIODO :> periodo)
          /\ pp_saldo_inicial = <<>>
          /\ pp_lineas \in SecuenciasHasta(LineasFechasBanamex, MaxLineasFechas)
       \/ /\ pp_banco = "inbursa"
          /\ pp_argv = <<<<"m", "a", "i", "n", "_", "e", "x", "t", "r", "a", "c", "t", "o", "r", ".", "p", "y">>>>
          /\ \E anio \in AniosInbursa :
                pp_metadatos = (K_NUMERO_CUENTA :> CUENTA_PROPIA) @@ (K_ANIO_AUX :> anio)
                               @@ (K_PERIODO :> <<"P", "E", "R", "I", "O", "D", "O", "_", "N", "O", "_", "D", "E", "F", "I", "N", "I", "D", "O">>)
          /\ pp_saldo_inicial \in SaldosIniciales
          /\ \E s \in SecuenciasHasta(LineasFechasInbursa, MaxLineasFechas) :
                pp_lineas = <<EncabezadoInbursa>> \o s
    /\ pp_grupos = <<>>
    /\ pp_idx = 0
    /\ pp_bloque_actual = <<>>
    /\ pp_transacciones = <<>>
    /\ pp_bloques = <<>>

NextFechas ==
    \/ BanamexAgrupar \/ BanamexProcesar
    \/ Retornar
    \/ InbursaPreparar \/ InbursaLinea \/ InbursaUltimoBloque

SpecFechas == InitFechas /\ [][NextFechas]_vars

\* the day and the month the date line of the k-th emitted block writes
DiaEscrito(k) == DigitsToInt(pp_bloques[k][1][1])
MesEscrito(k) == meses_get(Upper(pp_bloques[k][1][2]), <<>>)

\* C21: every transaction emitted by the Banamex and the Inbursa parser has
\* a date DD/MM/AAAA with a day in 01..31 and a month in 01..12, and that
\* date is the one its block's date line writes: its day is the day written
\* (also when written with one digit) and its month is the month the token
\* names (also when written in lower case); no block gets a month outside
\* 01..12 or another date in place of its own.
C21_FechaValida ==
    \A k \in Emitidas :
        LET fecha == pp_transacciones[k][K_FECHA]
            dia == DigitsToInt(SubSeq(fecha, 1, 2))
            mes == DigitsToInt(SubSeq(fecha, 4, 5))
        IN  /\ Len(fecha) = 10
            /\ dia \in 1..31
            /\ mes \in 1..12
            /\ dia = DiaEscrito(k)
            /\ MesEscrito(k) # <<>> => SubSeq(fecha, 4, 5) = MesEscrito(k)

-----------------------------------------------------------------------------
(* SpecMetadatos: one call of funcion_extraer_metadatos_completos of each   *)
(* parser.  What its searches find in the text is the input: each value is  *)
(* found or is not.                                                         *)

PERIODO_HALLADO_NUMERICO == <<"D", "E", "L", " ", "0", "1", "/", "0", "4", "/", "2", "0", "2", "5", " ", "A", "L", " ", "3", "0", "/", "0", "4", "/", "2", "0", "2", "5">>
PERIODO_HALLADO_INBURSA == <<"D", "E", "L", " ", "0", "1", " ", "A", "B", "R", " ", "2", "0", "2", "5", " ", "A", "L", " ", "3", "0", " ", "A", "B", "R", " ", "2", "0", "2", "5">>
EMPRESA_NO_IDENTIFICADA == <<"E", "M", "P", "R", "E", "S", "A", " ", "N", "O", " ", "I", "D", "E", "N", "T", "I", "F", "I", "C", "A", "D", "A">>

\* what the searches of one call can find
Hallazgos ==
    [nombre_empresa : {<<>>, NOMBRE_ACME}, periodo : BOOLEAN,
     numero_cuenta : {<<>>, CUENTA_PROPIA},
     saldo_inicial : {0, 100000}, saldo_final : {0, 130000}]

\* bbva_parser.funcion_extraer_metadatos_completos: datos_raw after the
\* searches, and the dict returned
bbva_extraer_metadatos_completos(hallado) ==
    LET datos_raw == [nombre_empresa |-> hallado.nombre_empresa,
                      periodo |-> IF hallado.periodo THEN PERIODO_HALLADO_NUMERICO ELSE <<>>,
                      numero_cuenta_clabe |-> <<>>,
                      numero_cuenta |-> hallado.numero_cuenta,
                      saldo_inicial |-> hallado.saldo_inicial,
                      total_depositos |-> 0, total_retiros |-> 0,
                      saldo_final |-> hallado.saldo_final,
                      saldo_promedio |-> bbva_saldo_promedio(<<>>, hallado),
                      sucursal |-> <<>>]
    IN  (K_NOMBRE_EMPRESA :> funcion_limpiar_nombre_empresa(datos_raw.nombre_empresa))
        @@ (K_NUMERO_CUENTA :> datos_raw.numero_cuenta)
        @@ (K_PERIODO :> funcion_formatear_periodo_archivo(datos_raw.periodo))
        @@ ("Saldo inicial de la cuenta" :> datos_raw.saldo_inicial)
        @@ ("Saldo final de la cuenta" :> datos_raw.saldo_final)
        @@ ("Saldo promedio del periodo" :> datos_raw.saldo_promedio)
        @@ ("Cantidad total de depositos" :> datos_raw.total_depositos)
        @@ ("Cantidad total de retiros" :> datos_raw.total_retiros)
        @@ ("Giro de la empresa" :> <<>>)
        @@ ("_auxiliar" :> [periodo_original |-> datos_raw.periodo,
                            sucursal |-> datos_raw.sucursal,
                            clabe |-> datos_raw.numero_cuenta_clabe])

\* banamex_empresa_parser.funcion_extraer_metadatos_completos
banamex_extraer_metadatos_completos(hallado) ==
    LET nombre_encontrado == hallado.nombre_empresa
        datos == [nombre_empresa |-> IF nombre_encontrado # <<>> THEN nombre_encontrado
                                     ELSE EMPRESA_NO_IDENTIFICADA,
                  periodo |-> IF hallado.periodo THEN PERIODO_HALLADO_NUMERICO ELSE <<>>,
                  numero_cuenta |-> hallado.numero_cuenta,
                  saldo_inicial |-> hallado.saldo_inicial,
                  total_depositos |-> 0, total_retiros |-> 0,
                  saldo_final |-> hallado.saldo_final,
                  saldo_promedio |-> 0]
    IN  (K_NOMBRE_EMPRESA :> funcion_limpiar_nombre_empresa(datos.nombre_empresa))
        @@ (K_NUMERO_CUENTA :> datos.numero_cuenta)
        @@ (K_PERIODO :> funcion_formatear_periodo_archivo(datos.periodo))
        @@ ("Saldo inicial de la cuenta" :> datos.saldo_inicial)
        @@ ("Saldo final de la cuenta" :> datos.saldo_final)
        @@ ("Saldo promedio del periodo" :> banamex_saldo_promedio(<<>>, datos))
        @@ ("Cantidad total de depositos" :> datos.total_depositos)
        @@ ("Cantidad total de retiros" :> datos.total_retiros)
        @@ ("Giro de la empresa" :> <<>>)

\* inbursa_parser.funcion_extraer_metadatos_completos
inbursa_extraer_metadatos_completos(hallado) ==
    LET base == [datos_inbursa_iniciales EXCEPT
                    !.nombre_empresa = hallado.nombre_empresa,
                    !.periodo = IF hallado.periodo THEN PERIODO_HALLADO_INBURSA ELSE <<>>,
                    !.numero_cuenta = hallado.numero_cuenta,
                    !.saldo_inicial = hallado.saldo_inicial,
                    !.saldo_final = hallado.saldo_final]
    IN  inbursa_metadatos(IF hallado.periodo
                          THEN base @@ ("_anio_aux" :> <<"2", "0", "2", "5">>)
                          ELSE base)

InitMetadatos ==
    /\ BalanceEnReposo /\ ParserEnReposo /\ PipelineEnReposo /\ CorridasEnReposo /\ PeriodoEnReposo /\ CruzadaEnReposo /\ ProcesarEnReposo /\ NormalizarEnReposo /\ SaldoPromedioEnReposo /\ CSVEnReposo /\ AgruparEnReposo /\ ResumenEnReposo /\ MetodoPagoEnReposo
    /\ md_pc = "llamada"
    /\ md_banco \in {"bbva", "banamex", "inbursa"}
    /\ md_hallado \in Hallazgos
    /\ md_metadatos = <<>>

BbvaExtraerMetadatos ==
    /\ md_pc = "llamada" /\ md_banco = "bbva"
    /\ md_metadatos' = bbva_extraer_metadatos_completos(md_hallado)
    /\ md_pc' = "retornado"
    /\ UNCHANGED <<md_banco, md_hallado>>
    /\ UNCHANGED <<varsBalance, varsParser, varsPipeline, varsCorridas, varsPeriodo, varsCruzada, varsProcesar, varsNormalizar, varsSaldoPromedio, varsCSV, varsAgrupar, varsResumen, varsMetodoPago>>

BanamexExtraerMetadatos ==
    /\ md_pc = "llamada" /\ md_banco = "banamex"
    /\ md_metadatos' = banamex_extraer_metadatos_completos(md_hallado)
    /\ md_pc' = "retornado"
    /\ UNCHANGED <<md_banco, md_hallado>>
    /\ UNCHANGED <<varsBalance, varsParser, varsPipeline, varsCorridas, varsPeriodo, varsCruzada, varsProcesar, varsNormalizar, varsSaldoPromedio, varsCSV, varsAgrupar, varsResumen, varsMetodoPago>>

InbursaExtraerMetadatos ==
    /\ md_pc = "llamada" /\ md_banco = "inbursa"
    /\ md_metadatos' = inbursa_extraer_metadatos_completos(md_hallado)
    /\ md_pc' = "retornado"
    /\ UNCHANGED <<md_banco, md_hallado>>
    /\ UNCHANGED <<varsBalance, varsParser, varsPipeline, varsCorridas, varsPeriodo, varsCruzada, varsProcesar, varsNormalizar, varsSaldoPromedio, varsCSV, varsAgrupar, varsResumen, varsMetodoPago>>

NextMetadatos ==
    BbvaExtraerMetadatos \/ BanamexExtraerMetadatos \/ InbursaExtraerMetadatos

SpecMetadatos == InitMetadatos /\ [][NextMetadatos]_vars

\* no search of the call found anything
NadaHallado ==
    md_hallado = [nombre_empresa |-> <<>>, periodo |-> FALSE, numero_cuenta |-> <<>>,
                  saldo_inicial |-> 0, saldo_final |-> 0]

\* C22: when nothing could be extracted from the text, the metadata
\* extraction of each bank still returns a record, whose numeric fields are
\* 0, whose company name is a non-empty placeholder and whose other text
\* fields (account number, period, line of business) are empty.
C22_RegistroSinCampos ==
    (md_pc = "retornado" /\ NadaHallado)
        => /\ md_metadatos # <<>>
           /\ \A k \in {"Saldo inicial de la cuenta", "Saldo final de la cuenta",
                        "Saldo promedio del periodo", "Cantidad total de depositos",
                        "Cantidad total de retiros"} : md_metadatos[k] = 0
           /\ md_metadatos[K_NOMBRE_EMPRESA] # <<>>
           /\ \A k \in {K_NUMERO_CUENTA, K_PERIODO, "Giro de la empresa"} :
                  md_metadatos[k] = <<>>

-----------------------------------------------------------------------------
(* SpecCSV: CONVERSION_JSON_CSV.convertir_json_a_csv on the JSON file of a  *)
(* transaction list one of the three parsers returned.  The file holds the  *)
(* list with the keys the parser gave it; here they are the keys of the     *)
(* transactions of the model, which are among those of the program.         *)

MaxLineasCSV == 2

\* columnas, lines 10-23
columnas ==
    <<K_FECHA, "Nombre de la transaccion", "Nombre resumido", "Tipo de transaccion",
      K_CLASIFICACION, "Quien realiza o recibe el pago", K_MONTO,
      "Numero de referencia o folio", "Numero de cuenta origen o destino",
      "Metodo de pago", "Sucursal o ubicacion", "Giro de la transaccion">>

\* csv.DictWriter(fieldnames=columnas).writerow(rowdict), extrasaction being
\* 'raise': the keys of rowdict that are no column
campos_ajenos(rowdict) == DOMAIN rowdict \ {columnas[j] : j \in 1..Len(columnas)}
\* the row written: rowdict.get(key, '') for each column
fila_de(rowdict) == [j \in 1..Len(columnas) |-> Get(rowdict, columnas[j], <<>>)]

InitCSV ==
    /\ BalanceEnReposo /\ ParserEnReposo /\ PipelineEnReposo /\ CorridasEnReposo /\ PeriodoEnReposo /\ CruzadaEnReposo /\ ProcesarEnReposo /\ NormalizarEnReposo /\ SaldoPromedioEnReposo /\ MetadatosEnReposo /\ AgruparEnReposo /\ ResumenEnReposo /\ MetodoPagoEnReposo
    /\ csv_pc = "inicio"
    /\ \/ \E layout \in Layouts, periodo \in PeriodosBBVA,
             lineas \in {<<>>} \cup SecuenciasHasta(LineasBBVA, MaxLineasCSV) :
             csv_datos = extraer_transacciones(
                             "bbva", lineas,
                             (K_NUMERO_CUENTA :> CUENTA_PROPIA) @@ (K_PERIODO :> periodo),
                             layout, <<<<"m", "a", "i", "n", "_", "e", "x", "t", "r", "a", "c", "t", "o", "r", ".", "p", "y">>>>)
       \/ \E periodo \in PeriodosBanamex,
             lineas \in {<<>>} \cup SecuenciasHasta(LineasBanamex, MaxLineasCSV) :
             csv_datos = extraer_transacciones(
                             "banamex", lineas,
                             (K_NUMERO_CUENTA :> CUENTA_PROPIA) @@ (K_PERIODO :> periodo),
                             "", <<<<"m", "a", "i", "n", "_", "e", "x", "t", "r", "a", "c", "t", "o", "r", ".", "p", "y">>>>)
       \/ \E anio \in AniosInbursa, s \in SecuenciasHasta(LineasInbursa, MaxLineasCSV) :
             csv_datos = extraer_transacciones(
                             "inbursa", <<EncabezadoInbursa>> \o s,
                             (K_NUMERO_CUENTA :> CUENTA_PROPIA) @@ (K_ANIO_AUX :> anio)
                             @@ (K_PERIODO :> PERIODO_NO_DEFINIDO),
                             "", <<<<"m", "a", "i", "n", "_", "e", "x", "t", "r", "a", "c", "t", "o", "r", ".", "p", "y">>>>)
    /\ csv_i = 0
    /\ csv_filas = <<>>

\* lines 26-39: the file is read and the header is written
EscribirCabecera ==
    /\ csv_pc = "inicio"
    /\ csv_filas' = <<columnas>>
    /\ csv_i' = 1
    /\ csv_pc' = "filas"
    /\ UNCHANGED csv_datos
    /\ UNCHANGED <<varsBalance, varsParser, varsPipeline, varsCorridas, varsPeriodo, varsCruzada, varsProcesar, varsNormalizar, varsSaldoPromedio, varsMetadatos, varsAgrupar, varsResumen, varsMetodoPago>>

\* lines 42-44: one turn of the loop; writerow raises ValueError when the
\* transaction has a key that is no column
EscribirFila ==
    /\ csv_pc = "filas" /\ csv_i <= Len(csv_datos)
    /\ IF campos_ajenos(csv_datos[csv_i]) # {}
       THEN /\ csv_pc' = "ValueError"
            /\ UNCHANGED <<csv_filas, csv_i>>
       ELSE /\ csv_filas' = Append(csv_filas, fila_de(csv_datos[csv_i]))
            /\ csv_i' = csv_i + 1
            /\ UNCHANGED csv_pc
    /\ UNCHANGED csv_datos
    /\ UNCHANGED <<varsBalance, varsParser, varsPipeline, varsCorridas, varsPeriodo, varsCruzada, varsProcesar, varsNormalizar, varsSaldoPromedio, varsMetadatos, varsAgrupar, varsResumen, varsMetodoPago>>

\* line 49: the file is closed and its path printed
TerminarCSV ==
    /\ csv_pc = "filas" /\ csv_i > Len(csv_datos)
    /\ csv_pc' = "hecho"
    /\ UNCHANGED <<csv_datos, csv_i, csv_filas>>
    /\ UNCHANGED <<varsBalance, varsParser, varsPipeline, varsCorridas, varsPeriodo, varsCruzada, varsProcesar, varsNormalizar, varsSaldoPromedio, varsMetadatos, varsAgrupar, varsResumen, varsMetodoPago>>

NextCSV == EscribirCabecera \/ EscribirFila \/ TerminarCSV

SpecCSV == InitCSV /\ [][NextCSV]_vars

\* C23: for every transaction list a parser returned, convertir_json_a_csv
\* does not raise, and when it ends the file has the header of 12 columns
\* followed by one row for each transaction of the list.
C23_CSVSinExcepcion ==
    /\ csv_pc # "ValueError"
    /\ csv_pc = "hecho"
          => /\ Len(csv_filas) = 1 + Len(csv_datos)
             /\ csv_filas[1] = columnas /\ Len(columnas) = 12

-----------------------------------------------------------------------------
(* SpecSaldosInbursa: the run of the Inbursa parser SpecParser has, on      *)
(* movements with and without a stated balance, with small and large        *)
(* amounts, parsear_transacciones being called with or without a balance.   *)

MaxLineasSaldos == 3

K_SALDO_INICIAL == "Saldo inicial de la cuenta"

LineasSaldos == {
    <<<<"0", "5">>, <<"A", "B", "R">>, <<"D", "E", "P", "O", "S", "I", "T", "O">>, <<"0", ".", "3", "0">>, <<"1", ",", "0", "0", "0", ".", "3", "0">>>>,
    <<<<"0", "6">>, <<"A", "B", "R">>, <<"D", "E", "P", "O", "S", "I", "T", "O">>, <<"5", "0", "0", ".", "0", "0">>, <<"1", ",", "5", "0", "0", ".", "0", "0">>>>,
    <<<<"0", "7">>, <<"A", "B", "R">>, <<"C", "A", "R", "G", "O">>, <<"2", "0", "0", ".", "0", "0">>>>,
    <<<<"0", "8">>, <<"A", "B", "R">>, <<"T", "R", "A", "S", "P", "A", "S", "O">>>>,
    <<<<"0", "9">>, <<"A", "B", "R">>, <<"C", "O", "M", "I", "S", "I", "O", "N">>, <<"1", "0", "0", ".", "0", "0">>, <<"9", "0", "0", ".", "0", "0">>>>,
    <<<<"1", "0">>, <<"A", "B", "R">>, <<"C", "A", "R", "G", "O">>, <<"9", "0", "0", ".", "0", "0">>, <<"0", ".", "0", "0">>>>}

\* the opening balance funcion_extraer_metadatos_completos reads from the
\* statement: none (0.0) or 1,000.00
SaldosExtraidos == {0, 100000}

InitSaldosInbursa ==
    /\ BalanceEnReposo /\ PipelineEnReposo /\ CorridasEnReposo /\ PeriodoEnReposo /\ CruzadaEnReposo /\ ProcesarEnReposo /\ NormalizarEnReposo /\ SaldoPromedioEnReposo /\ MetadatosEnReposo /\ CSVEnReposo /\ AgruparEnReposo /\ ResumenEnReposo /\ MetodoPagoEnReposo
    /\ pp_pc = "entrada"
    /\ pp_banco = "inbursa"
    /\ pp_layout = ""
    /\ pp_argv = <<<<"m", "a", "i", "n", "_", "e", "x", "t", "r", "a", "c", "t", "o", "r", ".", "p", "y">>>>
    /\ \E extraido \in SaldosExtraidos :
          pp_metadatos = (K_NUMERO_CUENTA :> CUENTA_PROPIA) @@ (K_ANIO_AUX :> <<"2", "0", "2", "5">>)
                         @@ (K_PERIODO :> PERIODO_NO_DEFINIDO)
                         @@ (K_SALDO_INICIAL :> extraido)
    /\ pp_saldo_inicial \in SaldosIniciales
    /\ \E s \in SecuenciasHasta(LineasSaldos, MaxLineasSaldos) :
          pp_lineas = <<EncabezadoInbursa>> \o s
    /\ pp_grupos = <<>>
    /\ pp_idx = 0
    /\ pp_bloque_actual = <<>>
    /\ pp_transacciones = <<>>
    /\ pp_bloques = <<>>

NextSaldosInbursa == InbursaPreparar \/ InbursaLinea \/ InbursaUltimoBloque

SpecSaldosInbursa == InitSaldosInbursa /\ [][NextSaldosInbursa]_vars

\* the amounts the k-th emitted block writes, and the balance it states
\* (0 when it writes fewer than two amounts)
MontosEscritos(k) == FindAllLexemas(Aplanar(pp_bloques[k]), MontosInbursaEnLexema)
SaldoDeclarado(k) ==
    IF Len(MontosEscritos(k)) >= 2
    THEN funcion_extraer_monto(MontosEscritos(k)[Len(MontosEscritos(k))])
    ELSE 0
\* the balance before the k-th emitted transaction
SaldoAnterior(k) ==
    IF k = 1 THEN Get(pp_metadatos, "saldo_inicial", 0)
    ELSE pp_transacciones[k - 1][K_SALDO_CALCULADO]

\* C24: when the balance before an Inbursa transaction and the balance its
\* block states are both greater than 0, the transaction is an Ingreso if
\* previous balance + amount = stated balance and an Egreso if previous
\* balance - amount = stated balance, for every positive amount.
C24_ClasificacionPorSaldo ==
    \A k \in Emitidas :
        LET monto == pp_transacciones[k][K_MONTO]
            clase == pp_transacciones[k][K_CLASIFICACION]
        IN  (SaldoAnterior(k) > 0 /\ SaldoDeclarado(k) > 0)
                => /\ SaldoAnterior(k) + monto = SaldoDeclarado(k) => clase = "Ingreso"
                   /\ SaldoAnterior(k) - monto = SaldoDeclarado(k) => clase = "Egreso"

\* the k-th emitted block states a balance: it writes two amounts or more
DeclaraSaldo(k) == Len(MontosEscritos(k)) >= 2
SaldoEscrito(k) == funcion_extraer_monto(MontosEscritos(k)[Len(MontosEscritos(k))])

\* C25: the running balance recorded for each emitted Inbursa transaction is
\* the balance its block states when it states one, and otherwise the
\* balance recorded for the transaction emitted before it (the opening
\* balance for the first) minus the amount of a charge or plus the amount of
\* a deposit; blocks that emit nothing leave it as it was.
C25_SaldoCorriente ==
    \A k \in Emitidas :
        LET monto == pp_transacciones[k][K_MONTO]
            registrado == pp_transacciones[k][K_SALDO_CALCULADO]
        IN  registrado =
                IF DeclaraSaldo(k) THEN SaldoEscrito(k)
                ELSE IF pp_transacciones[k][K_CLASIFICACION] = "Egreso"
                     THEN SaldoAnterior(k) - monto
                     ELSE SaldoAnterior(k) + monto

-----------------------------------------------------------------------------
(* SpecSaldoApertura: the same run started by the orchestrator:             *)
(* main_extractor._parsear_texto calls parsear_datos_generales and hands    *)
(* datos_generales.get('saldo_inicial', 0) to parsear_transacciones.        *)

MaxLineasApertura == 2

InitSaldoApertura ==
    /\ BalanceEnReposo /\ PipelineEnReposo /\ CorridasEnReposo /\ PeriodoEnReposo /\ CruzadaEnReposo /\ ProcesarEnReposo /\ NormalizarEnReposo /\ SaldoPromedioEnReposo /\ MetadatosEnReposo /\ CSVEnReposo /\ AgruparEnReposo /\ ResumenEnReposo /\ MetodoPagoEnReposo
    /\ pp_pc = "entrada"
    /\ pp_banco = "inbursa"
    /\ pp_layout = ""
    /\ pp_argv = <<<<"m", "a", "i", "n", "_", "e", "x", "t", "r", "a", "c", "t", "o", "r", ".", "p", "y">>>>
    /\ \E hallado \in Hallazgos :
          /\ pp_metadatos = inbursa_extraer_metadatos_completos(hallado)
          /\ pp_saldo_inicial = <<Get(inbursa_extraer_metadatos_completos(hallado),
                                      "saldo_inicial", 0)>>
    /\ \E s \in SecuenciasHasta(LineasSaldos, MaxLineasApertura) :
          pp_lineas = <<EncabezadoInbursa>> \o s
    /\ pp_grupos = <<>>
    /\ pp_idx = 0
    /\ pp_bloque_actual = <<>>
    /\ pp_transacciones = <<>>
    /\ pp_bloques = <<>>

SpecSaldoApertura == InitSaldoApertura /\ [][NextSaldosInbursa]_vars

\* C26: when the orchestrator parses an Inbursa statement from which an
\* opening balance greater than 0 was extracted, the balance the first
\* transaction is classified against is that opening balance.
C26_SaldoDeApertura ==
    (pp_metadatos[K_SALDO_INICIAL] > 0 /\ Len(pp_transacciones) >= 1)
        => SaldoAnterior(1) = pp_metadatos[K_SALDO_INICIAL]

-----------------------------------------------------------------------------
(* SpecAgrupar: the grouping of the lines of a movements section into       *)
(* blocks, one call for each bank.  A line is a sequence of lexemes; the    *)
(* Banamex and Inbursa groupings read it as text.                           *)

MaxLineasAgrupar == 4

LineasAgruparBBVA == {
    <<<<"0", "1", "/", "A", "B", "R">>, <<"0", "1", "/", "A", "B", "R">>, <<"T", "1", "7">>, <<"S", "P", "E", "I">>, <<"E", "N", "V", "I", "A", "D", "O">>, <<"5", "0", "0", ".", "0", "0">>>>,
    <<<<"0", "2", "/", "A", "B", "R">>, <<"0", "2", "/", "A", "B", "R">>, <<"T", "2", "0">>, <<"S", "P", "E", "I">>, <<"R", "E", "C", "I", "B", "I", "D", "O">>, <<"2", "5", "0", ".", "0", "0">>>>,
    <<<<"A", "C", "M", "E">>, <<"C", "O", "M", "E", "R", "C", "I", "A", "L">>, <<"N", "O", "R", "T", "E">>>>,
    <<<<"P", "A", "G", "I", "N", "A">>, <<"2">>>>,
    <<<<"R", "E", "F">>, <<"0", "0", "1", "2", "3", "4", "5", "6", "7", "8">>>>}
LineasAgruparBanamex == {
    <<<<"0", "5">>, <<"E", "N", "E">>, <<"P", "A", "G", "O">>, <<"R", "E", "C", "I", "B", "I", "D", "O">>, <<"3", "0", "0", ".", "0", "0">>, <<"1", ",", "3", "0", "0", ".", "0", "0">>>>,
    <<<<"0", "6">>, <<"E", "N", "E">>, <<"C", "O", "M", "I", "S", "I", "O", "N">>, <<"1", "0", ".", "0", "0">>, <<"1", ",", "2", "9", "0", ".", "0", "0">>>>,
    <<<<"A", "C", "M", "E">>, <<"C", "O", "M", "E", "R", "C", "I", "A", "L">>, <<"N", "O", "R", "T", "E">>>>,
    <<<<"R", "E", "F">>, <<"0", "0", "1", "2", "3", "4", "5", "6", "7", "8">>>>}
LineasAgruparInbursa == {
    <<<<"0", "5">>, <<"A", "B", "R">>, <<"D", "E", "P", "O", "S", "I", "T", "O">>, <<"5", "0", "0", ".", "0", "0">>, <<"1", ",", "5", "0", "0", ".", "0", "0">>>>,
    <<<<"0", "6">>, <<"A", "B", "R">>, <<"C", "A", "R", "G", "O">>, <<"2", "0", "0", ".", "0", "0">>>>,
    <<<<"A", "C", "M", "E">>, <<"C", "O", "M", "E", "R", "C", "I", "A", "L">>, <<"N", "O", "R", "T", "E">>>>,
    <<<<"R", "E", "F">>, <<"1", "2">>>>}

\* inbursa_parser.funcion_extraer_todas_transacciones, lines 215-231: the
\* blocks its loop hands to funcion_procesar_bloque_transaccion, in order
RECURSIVE BloquesInbursa(_, _, _)
BloquesInbursa(lineas, bloques, bloque_actual) ==
    IF lineas = <<>>
    THEN IF bloque_actual # <<>> THEN Append(bloques, bloque_actual) ELSE bloques
    ELSE IF patron_inicio_tx(lineas[1])
         THEN BloquesInbursa(Tail(lineas),
                             IF bloque_actual # <<>> THEN Append(bloques, bloque_actual)
                             ELSE bloques,
                             <<lineas[1]>>)
         ELSE BloquesInbursa(Tail(lineas), bloques,
                             IF bloque_actual # <<>> THEN Append(bloque_actual, lineas[1])
                             ELSE bloque_actual)
bloques_inbursa(lineas) ==
    LET bloques == BloquesInbursa(lineas, <<>>, <<>>)
    IN  [b \in 1..Len(bloques) |-> BloqueDe(bloques[b])]

TextoDeLineas(lineas) == [i \in 1..Len(lineas) |-> TextoLinea(lineas[i])]

InitAgrupar ==
    /\ BalanceEnReposo /\ ParserEnReposo /\ PipelineEnReposo /\ CorridasEnReposo /\ PeriodoEnReposo /\ CruzadaEnReposo /\ ProcesarEnReposo /\ NormalizarEnReposo /\ SaldoPromedioEnReposo /\ MetadatosEnReposo /\ CSVEnReposo /\ ResumenEnReposo /\ MetodoPagoEnReposo
    /\ ag_pc = "llamada"
    /\ ag_banco \in {"bbva", "banamex", "inbursa"}
    /\ ag_lineas \in SecuenciasHasta(CASE ag_banco = "bbva" -> LineasAgruparBBVA
                                       [] ag_banco = "banamex" -> LineasAgruparBanamex
                                       [] ag_banco = "inbursa" -> LineasAgruparInbursa,
                                     MaxLineasAgrupar)
    /\ ag_grupos = <<>>

BbvaAgruparLineas ==
    /\ ag_pc = "llamada" /\ ag_banco = "bbva"
    /\ ag_grupos' = funcion_agrupar_lineas_transacciones(ag_lineas)
    /\ ag_pc' = "retornado"
    /\ UNCHANGED <<ag_banco, ag_lineas>>
    /\ UNCHANGED <<varsBalance, varsParser, varsPipeline, varsCorridas, varsPeriodo, varsCruzada, varsProcesar, varsNormalizar, varsSaldoPromedio, varsMetadatos, varsCSV, varsResumen, varsMetodoPago>>

BanamexAgruparLineas ==
    /\ ag_pc = "llamada" /\ ag_banco = "banamex"
    /\ ag_grupos' = funcion_agrupar_lineas_por_fecha(TextoDeLineas(ag_lineas))
    /\ ag_pc' = "retornado"
    /\ UNCHANGED <<ag_banco, ag_lineas>>
    /\ UNCHANGED <<varsBalance, varsParser, varsPipeline, varsCorridas, varsPeriodo, varsCruzada, varsProcesar, varsNormalizar, varsSaldoPromedio, varsMetadatos, varsCSV, varsResumen, varsMetodoPago>>

InbursaAgruparLineas ==
    /\ ag_pc = "llamada" /\ ag_banco = "inbursa"
    /\ ag_grupos' = bloques_inbursa(TextoDeLineas(ag_lineas))
    /\ ag_pc' = "retornado"
    /\ UNCHANGED <<ag_banco, ag_lineas>>
    /\ UNCHANGED <<varsBalance, varsParser, varsPipeline, varsCorridas, varsPeriodo, varsCruzada, varsProcesar, varsNormalizar, varsSaldoPromedio, varsMetadatos, varsCSV, varsResumen, varsMetodoPago>>

NextAgrupar == BbvaAgruparLineas \/ BanamexAgruparLineas \/ InbursaAgruparLineas

SpecAgrupar == InitAgrupar /\ [][NextAgrupar]_vars

\* a date line and a noise line of the bank whose lines are grouped
EsLineaFecha(linea) ==
    CASE ag_banco = "bbva" -> patron_fecha_bbva(linea)
      [] ag_banco = "banamex" -> patron_fecha_banamex(TextoLinea(linea))
      [] ag_banco = "inbursa" -> patron_inicio_tx(TextoLinea(linea))
EsLineaRuido(linea) == ag_banco = "bbva" /\ es_ignorar(linea)

RECURSIVE SumaLongitudes(_)
SumaLongitudes(grupos) ==
    IF grupos = <<>> THEN 0 ELSE Len(grupos[1]) + SumaLongitudes(Tail(grupos))

\* the date line of a block, and the date line nearest before line i
FechaDelBloque(bloque) ==
    bloque[CHOOSE j \in 1..Len(bloque) :
               EsLineaFecha(bloque[j]) /\ \A j2 \in 1..(j - 1) : ~EsLineaFecha(bloque[j2])]
FechaAnterior(i) ==
    CHOOSE j \in 1..(i - 1) :
        EsLineaFecha(ag_lineas[j]) /\ \A j2 \in (j + 1)..(i - 1) : ~EsLineaFecha(ag_lineas[j2])

\* C27: in the grouping of each bank, every line that is neither a date line
\* nor noise and comes after a date line is in the block of the nearest date
\* line before it; the blocks are those of the date lines, in document
\* order; and no line is in more than one block.
C27_BloquesPorFecha ==
    ag_pc = "retornado"
        => /\ \A i \in 1..Len(ag_lineas) :
                  (/\ ~EsLineaFecha(ag_lineas[i]) /\ ~EsLineaRuido(ag_lineas[i])
                   /\ \E j \in 1..(i - 1) : EsLineaFecha(ag_lineas[j]))
                      => \E g \in 1..Len(ag_grupos) :
                            /\ FechaDelBloque(ag_grupos[g]) = ag_lineas[FechaAnterior(i)]
                            /\ \E p \in 1..Len(ag_grupos[g]) : ag_grupos[g][p] = ag_lineas[i]
           /\ [g \in 1..Len(ag_grupos) |-> FechaDelBloque(ag_grupos[g])]
                  = SelectSeq(ag_lineas, EsLineaFecha)
           /\ SumaLongitudes(ag_grupos) <= Len(ag_lineas)

-----------------------------------------------------------------------------
(* SpecResumen: the summarised names of the transactions of one document.   *)
(* The BBVA and the Banamex parser hand the same dict contador to every     *)
(* call of funcion_crear_nombre_resumido_inteligente; the Inbursa parser    *)
(* hands a new empty dict to each (inbursa_parser.py line 337).             *)

MaxResumidas == 2

TRANSFERENCIA == <<"T", "r", "a", "n", "s", "f", "e", "r", "e", "n", "c", "i", "a">>
DEPOSITO == <<"D", "e", "p", "o", "s", "i", "t", "o">>
TARJETA == <<"T", "a", "r", "j", "e", "t", "a">>
COMISION == <<"C", "o", "m", "i", "s", "i", "o", "n">>
IMPUESTO == <<"I", "m", "p", "u", "e", "s", "t", "o">>
RETIRO == <<"R", "e", "t", "i", "r", "o">>
PAGO == <<"P", "a", "g", "o">>
CARGO == <<"C", "a", "r", "g", "o">>
OTRO == <<"O", "t", "r", "o">>

\* str(numero)
RECURSIVE str_int(_)
str_int(n) == IF n < 10 THEN <<DigitChar(n)>> ELSE str_int(n \div 10) \o <<DigitChar(n % 10)>>

\* f"... ({numero}/n)"
con_ordinal(texto, numero) == texto \o <<" ", "(">> \o str_int(numero) \o <<"/", "n", ")">>

\* field_extractors.funcion_crear_nombre_resumido_inteligente: the name it
\* returns and the dict contador_transacciones as it leaves it
funcion_crear_nombre_resumido_inteligente(nombre_completo, tipo_transaccion, beneficiario, contador_transacciones) ==
    LET beneficiario_limpio == beneficiario
        palabras == Lexemas(beneficiario_limpio)
        nombre_corto == IF Len(beneficiario_limpio) > 25
                        THEN Unir(SubSeq(palabras, 1, Min(3, Len(palabras))), <<" ">>)
                        ELSE beneficiario_limpio
        clave_transaccion == tipo_transaccion \o <<"_">> \o nombre_corto
        numero == Get(contador_transacciones, clave_transaccion, 0) + 1
        hay == beneficiario_limpio # <<>>
        completo == Upper(nombre_completo)
        nombre ==
            CASE tipo_transaccion = TRANSFERENCIA ->
                    IF Contiene(completo, <<"S", "P", "E", "I", " ", "E", "N", "V", "I", "A", "D", "O">>)
                    THEN IF hay THEN <<"T", "r", "a", "n", "s", "f", "e", "r", "e", "n", "c", "i", "a", " ", "S", "P", "E", "I", " ", "a", " ">> \o nombre_corto
                         ELSE <<"T", "r", "a", "n", "s", "f", "e", "r", "e", "n", "c", "i", "a", " ", "S", "P", "E", "I", " ", "a", " ", "t", "e", "r", "c", "e", "r", "o">>
                    ELSE IF Contiene(completo, <<"S", "P", "E", "I", " ", "R", "E", "C", "I", "B", "I", "D", "O">>)
                    THEN IF hay THEN <<"T", "r", "a", "n", "s", "f", "e", "r", "e", "n", "c", "i", "a", " ", "S", "P", "E", "I", " ", "d", "e", " ">> \o nombre_corto
                         ELSE <<"T", "r", "a", "n", "s", "f", "e", "r", "e", "n", "c", "i", "a", " ", "S", "P", "E", "I", " ", "d", "e", " ", "t", "e", "r", "c", "e", "r", "o">>
                    ELSE IF Contiene(completo, <<"S", "P", "E", "I", " ", "D", "E", "V", "U", "E", "L", "T", "O">>)
                    THEN IF hay THEN <<"D", "e", "v", "o", "l", "u", "c", "i", "o", "n", " ", "S", "P", "E", "I", " ", "d", "e", " ">> \o nombre_corto
                         ELSE <<"D", "e", "v", "o", "l", "u", "c", "i", "o", "n", " ", "S", "P", "E", "I">>
                    ELSE IF hay THEN <<"T", "r", "a", "n", "s", "f", "e", "r", "e", "n", "c", "i", "a", " ", "a", " ">> \o nombre_corto
                         ELSE <<"T", "r", "a", "n", "s", "f", "e", "r", "e", "n", "c", "i", "a", " ", "d", "e", " ">> \o nombre_corto
              [] tipo_transaccion = DEPOSITO ->
                    IF hay THEN <<"D", "e", "p", "o", "s", "i", "t", "o", " ", "d", "e", " ">> \o nombre_corto
                    ELSE con_ordinal(<<"D", "e", "p", "o", "s", "i", "t", "o", " ", "d", "e", " ", "t", "e", "r", "c", "e", "r", "o">>, numero)
              [] tipo_transaccion = TARJETA ->
                    IF Contiene(completo, <<"G", "O", "O", "G", "L", "E">>) THEN <<"S", "u", "s", "c", "r", "i", "p", "c", "i", "o", "n", " ", "m", "e", "n", "s", "u", "a", "l", " ", "G", "O", "O", "G", "L", "E", " ", "G", "S", "U", "I", "T", "E">>
                    ELSE IF Contiene(completo, <<"G", "O", "D", "A", "D", "D", "Y">>)
                    THEN con_ordinal(<<"C", "o", "m", "p", "r", "a", " ", "e", "n", " ", "l", "i", "n", "e", "a", " ", "G", "O", "D", "A", "D", "D", "Y">>, numero)
                    ELSE IF Contiene(completo, <<"M", "I", "C", "R", "O", "S", "O", "F", "T">>) THEN <<"C", "o", "m", "p", "r", "a", " ", "e", "n", " ", "l", "i", "n", "e", "a", " ", "M", "I", "C", "R", "O", "S", "O", "F", "T">>
                    ELSE IF Contiene(completo, <<"W", "I", "X", "C", "O", "M">>)
                    THEN con_ordinal(<<"S", "u", "s", "c", "r", "i", "p", "c", "i", "o", "n", " ", "m", "e", "n", "s", "u", "a", "l", " ", "W", "I", "X", "C", "O", "M">>, numero)
                    ELSE IF Contiene(completo, <<"A", "D", "O", "B", "E">>) THEN <<"S", "u", "s", "c", "r", "i", "p", "c", "i", "o", "n", " ", "m", "e", "n", "s", "u", "a", "l", " ", "A", "D", "O", "B", "E">>
                    ELSE IF hay THEN <<"C", "o", "m", "p", "r", "a", " ", "e", "n", " ">> \o beneficiario_limpio
                    ELSE <<"P", "a", "g", "o", " ", "c", "o", "n", " ", "t", "a", "r", "j", "e", "t", "a">>
              [] tipo_transaccion = COMISION ->
                    IF Contiene(completo, <<"I", "V", "A">>)
                    THEN <<"I", "V", "A", " ", "d", "e", " ", "c", "o", "m", "i", "s", "i", "o", "n", " ", "s", "e", "r", "v", "i", "c", "i", "o", " ", "b", "a", "n", "c", "a", " ", "p", "o", "r", " ", "i", "n", "t", "e", "r", "n", "e", "t">>
                    ELSE <<"C", "o", "m", "i", "s", "i", "o", "n", " ", "p", "o", "r", " ", "s", "e", "r", "v", "i", "c", "i", "o", " ", "d", "e", " ", "b", "a", "n", "c", "a", " ", "p", "o", "r", " ", "i", "n", "t", "e", "r", "n", "e", "t">>
              [] tipo_transaccion = IMPUESTO -> <<"P", "a", "g", "o", " ", "d", "e", " ", "I", "S", "R">>
              [] tipo_transaccion = RETIRO -> <<"R", "e", "t", "i", "r", "o", " ", "c", "a", "j", "e", "r", "o", " ", "a", "u", "t", "o", "m", "a", "t", "i", "c", "o">>
              [] tipo_transaccion = PAGO ->
                    IF hay THEN <<"P", "a", "g", "o", " ", "c", "u", "e", "n", "t", "a", " ", "d", "e", " ", "t", "e", "r", "c", "e", "r", "o", " ">> \o nombre_corto
                    ELSE <<"P", "a", "g", "o", " ", "c", "u", "e", "n", "t", "a", " ", "d", "e", " ", "t", "e", "r", "c", "e", "r", "o">>
              [] tipo_transaccion = CARGO -> con_ordinal(<<"C", "a", "r", "g", "o", " ", "p", "o", "r", " ", "r", "e", "c", "i", "b", "o">>, numero)
              [] OTHER ->
                    IF hay
                    THEN LET t == tipo_transaccion \o <<" ">> \o nombre_corto
                         IN  SubSeq(t, 1, Min(50, Len(t)))
                    ELSE tipo_transaccion
    IN  [nombre |-> nombre,
         contador |-> (clave_transaccion :> numero) @@ contador_transacciones]

\* the types the type functions of each parser can give, among them
TiposDe(banco) ==
    CASE banco = "bbva" -> {TRANSFERENCIA, DEPOSITO, CARGO, IMPUESTO}
      [] banco = "banamex" -> {TRANSFERENCIA, DEPOSITO, PAGO, IMPUESTO}
      [] banco = "inbursa" -> {TRANSFERENCIA, DEPOSITO, OTRO, IMPUESTO}
EntradasResumen(banco) ==
    [nombre_completo : {<<"S", "P", "E", "I", " ", "E", "N", "V", "I", "A", "D", "O", " ", "A", "C", "M", "E">>, <<"R", "E", "C", "I", "B", "O", " ", "D", "E", " ", "L", "U", "Z">>},
     tipo_transaccion : TiposDe(banco),
     beneficiario : {<<>>, <<"A", "C", "M", "E">>}]

InitResumen ==
    /\ BalanceEnReposo /\ ParserEnReposo /\ PipelineEnReposo /\ CorridasEnReposo /\ PeriodoEnReposo /\ CruzadaEnReposo /\ ProcesarEnReposo /\ NormalizarEnReposo /\ SaldoPromedioEnReposo /\ MetadatosEnReposo /\ CSVEnReposo /\ AgruparEnReposo /\ MetodoPagoEnReposo
    /\ nr_banco \in {"bbva", "banamex", "inbursa"}
    /\ nr_contador = <<>>
    /\ nr_entradas = <<>>
    /\ nr_nombres = <<>>

\* what the call for one more transaction does, contador being the dict the
\* parser hands in
Resumir(entrada, contador) ==
    LET r == funcion_crear_nombre_resumido_inteligente(
                 entrada.nombre_completo, entrada.tipo_transaccion,
                 entrada.beneficiario, contador)
    IN  /\ nr_entradas' = Append(nr_entradas, entrada)
        /\ nr_nombres' = Append(nr_nombres, r.nombre)
        /\ nr_contador' = r.contador

\* bbva_parser.funcion_parsear_transaccion_individual, lines 566-571
BbvaResumir ==
    /\ nr_banco = "bbva" /\ Len(nr_nombres) < MaxResumidas
    /\ \E entrada \in EntradasResumen("bbva") : Resumir(entrada, nr_contador)
    /\ UNCHANGED nr_banco
    /\ UNCHANGED <<varsBalance, varsParser, varsPipeline, varsCorridas, varsPeriodo, varsCruzada, varsProcesar, varsNormalizar, varsSaldoPromedio, varsMetadatos, varsCSV, varsAgrupar, varsMetodoPago>>

\* banamex_empresa_parser.funcion_procesar_grupo_transaccion, lines 376-381
BanamexResumir ==
    /\ nr_banco = "banamex" /\ Len(nr_nombres) < MaxResumidas
    /\ \E entrada \in EntradasResumen("banamex") : Resumir(entrada, nr_contador)
    /\ UNCHANGED nr_banco
    /\ UNCHANGED <<varsBalance, varsParser, varsPipeline, varsCorridas, varsPeriodo, varsCruzada, varsProcesar, varsNormalizar, varsSaldoPromedio, varsMetadatos, varsCSV, varsAgrupar, varsMetodoPago>>

\* inbursa_parser.funcion_procesar_bloque_transaccion, lines 336-338: the
\* dict handed in is {}
InbursaResumir ==
    /\ nr_banco = "inbursa" /\ Len(nr_nombres) < MaxResumidas
    /\ \E entrada \in EntradasResumen("inbursa") :
          /\ nr_entradas' = Append(nr_entradas, entrada)
          /\ nr_nombres' = Append(nr_nombres,
                                  funcion_crear_nombre_resumido_inteligente(
                                      entrada.nombre_completo, entrada.tipo_transaccion,
                                      entrada.beneficiario, <<>>).nombre)
    /\ UNCHANGED <<nr_banco, nr_contador>>
    /\ UNCHANGED <<varsBalance, varsParser, varsPipeline, varsCorridas, varsPeriodo, varsCruzada, varsProcesar, varsNormalizar, varsSaldoPromedio, varsMetadatos, varsCSV, varsAgrupar, varsMetodoPago>>

NextResumen == BbvaResumir \/ BanamexResumir \/ InbursaResumir

SpecResumen == InitResumen /\ [][NextResumen]_vars

\* the number of the marker " (k/n)" a name ends with, 0 for a name
\* without marker
OrdinalDe(nombre) ==
    LET n == Len(nombre)
        abre == {i \in 1..n : nombre[i] = "("}
        a == CHOOSE i \in abre : \A i2 \in abre : i2 <= i
    IN  IF n >= 5 /\ SubSeq(nombre, n - 2, n) = <<"/", "n", ")">> /\ abre # {}
           /\ a + 1 <= n - 3 /\ TodosEn(nombre, a + 1, n - 3, Digitos)
        THEN DigitsToInt(SubSeq(nombre, a + 1, n - 3))
        ELSE 0

\* C28: when two transactions of one document are summarised from the same
\* type, name and counterparty, the later one carries a higher ordinal
\* marker than the earlier one, in each of the three parsers.
C28_OrdinalCreciente ==
    \A i \in 1..Len(nr_nombres) : \A j \in 1..Len(nr_nombres) :
        (i < j /\ nr_entradas[i] = nr_entradas[j])
            => OrdinalDe(nr_nombres[j]) > OrdinalDe(nr_nombres[i])

-----------------------------------------------------------------------------
(* SpecMetodoPago: the payment method each parser gives a transaction from  *)
(* its code and its description.                                            *)

MaxPalabrasMetodo == 2

\* field_extractors.funcion_determinar_metodo_pago(codigo, descripcion)
funcion_determinar_metodo_pago(codigo, descripcion) ==
    LET descripcion_upper == Upper(descripcion)
    IN  IF codigo \in {<<"T", "1", "7">>, <<"T", "2", "0">>, <<"T", "2", "2">>} \/ Contiene(descripcion_upper, <<"S", "P", "E", "I">>)
        THEN <<"S", "P", "E", "I">>
        ELSE IF codigo = <<"N", "0", "6">> THEN <<"T", "r", "a", "n", "s", "f", "e", "r", "e", "n", "c", "i", "a">>
        ELSE IF codigo = <<"W", "0", "2">> THEN <<"E", "f", "e", "c", "t", "i", "v", "o">>
        ELSE IF codigo \in {<<"A", "1", "5">>, <<"A", "1", "6">>, <<"A", "1", "7">>}
                \/ Contiene(descripcion_upper, <<"T", "A", "R", "J", "E", "T", "A">>)
        THEN <<"T", "a", "r", "j", "e", "t", "a">>
        ELSE IF codigo = <<"A", "0", "1">> THEN <<"R", "e", "t", "i", "r", "o", " ", "C", "a", "j", "e", "r", "o">>
        ELSE IF codigo \in {<<"S", "3", "9">>, <<"S", "4", "0">>} THEN <<"C", "a", "r", "g", "o", " ", "b", "a", "n", "c", "a", "r", "i", "o">>
        ELSE IF codigo = <<"P", "1", "4">> THEN <<"P", "a", "g", "o", " ", "d", "e", " ", "i", "m", "p", "u", "e", "s", "t", "o", "s">>
        ELSE IF Contiene(descripcion_upper, <<"C", "H", "E", "Q", "U", "E">>) THEN <<"C", "h", "e", "q", "u", "e">>
        ELSE <<"O", "t", "r", "o">>

\* banamex_empresa_parser.funcion_procesar_grupo_transaccion, lines 358-364
banamex_metodo_pago(nombre_completo) ==
    LET metodo_pago == funcion_determinar_metodo_pago(<<"0", "0">>, nombre_completo)
        completo == Upper(nombre_completo)
    IN  IF Contiene(completo, <<"C", "H", "E", "Q", "U", "E">>) THEN <<"C", "h", "e", "q", "u", "e">>
        ELSE IF Contiene(completo, <<"D", "E", "P", "O", "S", "I", "T", "O">>) /\ Contiene(completo, <<"E", "F", "E", "C", "T", "I", "V", "O">>)
        THEN <<"E", "f", "e", "c", "t", "i", "v", "o">>
        ELSE IF Contiene(completo, <<"S", "P", "E", "I">>) THEN <<"S", "P", "E", "I">>
        ELSE IF Contiene(completo, <<"D", "O", "M", "I">>) THEN <<"D", "o", "m", "i", "c", "i", "l", "i", "a", "c", "i", "o", "n">>
        ELSE IF metodo_pago = <<"O", "t", "r", "o">> THEN <<"T", "r", "a", "n", "s", "f", "e", "r", "e", "n", "c", "i", "a", " ", "E", "l", "e", "c", "t", "r", "o", "n", "i", "c", "a">>
        ELSE metodo_pago

\* the codes of the table, one code of the type table that the method table
\* lacks and one unknown code
CodigosBBVA == {<<"T", "1", "7">>, <<"T", "2", "0">>, <<"T", "2", "2">>, <<"N", "0", "6">>, <<"W", "0", "2">>, <<"A", "1", "5">>, <<"A", "1", "6">>, <<"A", "1", "7">>,
                <<"A", "0", "1">>, <<"S", "3", "9">>, <<"S", "4", "0">>, <<"P", "1", "4">>, <<"G", "3", "0">>, <<"X", "9", "9">>}
PalabrasMetodo == {<<"C", "H", "E", "Q", "U", "E">>, <<"S", "P", "E", "I">>, <<"D", "O", "M", "I", "C", "I", "L", "I", "A", "C", "I", "O", "N">>, <<"P", "A", "G", "O">>, <<"T", "A", "R", "J", "E", "T", "A">>,
                   <<"D", "E", "P", "O", "S", "I", "T", "O">>, <<"E", "F", "E", "C", "T", "I", "V", "O">>}
Descripciones ==
    {<<>>} \cup {Unir(s, <<" ">>) : s \in SecuenciasHasta(PalabrasMetodo, MaxPalabrasMetodo)}

InitMetodoPago ==
    /\ BalanceEnReposo /\ ParserEnReposo /\ PipelineEnReposo /\ CorridasEnReposo /\ PeriodoEnReposo /\ CruzadaEnReposo /\ ProcesarEnReposo /\ NormalizarEnReposo /\ SaldoPromedioEnReposo /\ MetadatosEnReposo /\ CSVEnReposo /\ AgruparEnReposo /\ ResumenEnReposo
    /\ mp_pc = "llamada"
    /\ mp_banco \in {"bbva", "banamex", "inbursa"}
    /\ mp_codigo \in CASE mp_banco = "bbva" -> CodigosBBVA
                       [] mp_banco = "banamex" -> {<<"0", "0">>}
                       [] mp_banco = "inbursa" -> {<<"G", "E", "N", "E", "R", "I", "C", "O">>}
    /\ mp_descripcion \in Descripciones
    /\ mp_metodo = <<>>

\* bbva_parser.funcion_parsear_transaccion_individual, line 560
BbvaMetodoPago ==
    /\ mp_pc = "llamada" /\ mp_banco = "bbva"
    /\ mp_metodo' = funcion_determinar_metodo_pago(mp_codigo, mp_descripcion)
    /\ mp_pc' = "hecho"
    /\ UNCHANGED <<mp_banco, mp_codigo, mp_descripcion>>
    /\ UNCHANGED <<varsBalance, varsParser, varsPipeline, varsCorridas, varsPeriodo, varsCruzada, varsProcesar, varsNormalizar, varsSaldoPromedio, varsMetadatos, varsCSV, varsAgrupar, varsResumen>>

BanamexMetodoPago ==
    /\ mp_pc = "llamada" /\ mp_banco = "banamex"
    /\ mp_metodo' = banamex_metodo_pago(mp_descripcion)
    /\ mp_pc' = "hecho"
    /\ UNCHANGED <<mp_banco, mp_codigo, mp_descripcion>>
    /\ UNCHANGED <<varsBalance, varsParser, varsPipeline, varsCorridas, varsPeriodo, varsCruzada, varsProcesar, varsNormalizar, varsSaldoPromedio, varsMetadatos, varsCSV, varsAgrupar, varsResumen>>

\* inbursa_parser.funcion_procesar_bloque_transaccion, line 334
InbursaMetodoPago ==
    /\ mp_pc = "llamada" /\ mp_banco = "inbursa"
    /\ mp_metodo' = funcion_determinar_metodo_pago(mp_codigo, mp_descripcion)
    /\ mp_pc' = "hecho"
    /\ UNCHANGED <<mp_banco, mp_codigo, mp_descripcion>>
    /\ UNCHANGED <<varsBalance, varsParser, varsPipeline, varsCorridas, varsPeriodo, varsCruzada, varsProcesar, varsNormalizar, varsSaldoPromedio, varsMetadatos, varsCSV, varsAgrupar, varsResumen>>

NextMetodoPago == BbvaMetodoPago \/ BanamexMetodoPago \/ InbursaMetodoPago

SpecMetodoPago == InitMetodoPago /\ [][NextMetodoPago]_vars

\* the explicit terms a description has, with the method each one names
TerminosExplicitos ==
    {<<<<"C", "H", "E", "Q", "U", "E">>, <<"C", "h", "e", "q", "u", "e">>>>, <<<<"S", "P", "E", "I">>, <<"S", "P", "E", "I">>>>,
     <<<<"D", "O", "M", "I", "C", "I", "L", "I", "A", "C", "I", "O", "N">>, <<"D", "o", "m", "i", "c", "i", "l", "i", "a", "c", "i", "o", "n">>>>}
TerminosDe(descripcion) ==
    {t \in TerminosExplicitos : Contiene(Upper(descripcion), t[1])}

\* C29: when the description of a BBVA transaction has one of the explicit
\* terms CHEQUE, SPEI or DOMICILIACION (and no other of them), its payment
\* method is the one the term names, whatever the code of the transaction.
C29_TerminoExplicitoGana ==
    (mp_pc = "hecho" /\ mp_banco = "bbva")
        => \A t \in TerminosDe(mp_descripcion) :
               TerminosDe(mp_descripcion) = {t} => mp_metodo = t[2]

-----------------------------------------------------------------------------
(* The block starts of an Inbursa text before and after                     *)
(* funcion_normalizar_texto_inbursa, in the runs of SpecInbursaOCR.         *)

\* the lines of the text handed to the parser that patron_inicio_tx matches
IniciosEscritos ==
    {k \in 2..Len(pp_lineas) : patron_inicio_tx(TextoLinea(pp_lineas[k]))}

\* the lines of the normalised section that patron_inicio_tx matches: the
\* lines at which the loop starts a block
IniciosHallados ==
    {j \in 1..Len(pp_grupos) : patron_inicio_tx(pp_grupos[j])}

\* C30: the normalised text has at least as many lines that start a block
\* (lines beginning with a 'DD MMM' date) as the text handed to the parser
\* has lines beginning with a 'DD MMM' date: no block start is lost to the
\* line before it
C30_IniciosConservados ==
    pp_pc \in {"bucle", "retornado"}
        => Cardinality(IniciosHallados) >= Cardinality(IniciosEscritos)

=============================================================================
